---- MODULE Spec2Model ----
(***************************************************************************)
(* A model of the opencode ACP bridge (class OpencodeAcpAgent, the variant *)
(* of src/src/tools.ts lines 50-985 with modes, slash commands and the     *)
(* streaming prompt path).                                                 *)
(*                                                                         *)
(* Every async handler is cut at its awaits of the backend: one action     *)
(* runs a handler from one suspension point to the next.  An outgoing      *)
(* notification (client.sessionUpdate) either resolves or rejects; the     *)
(* outcome is an input of the action that sends it.                        *)
(*                                                                         *)
(* Strings the code parses (prompt text, model ids) are sequences of       *)
(* atoms: the separators "/" and " " are atoms of their own, every other   *)
(* atom is a run of characters holding no separator.                       *)
(***************************************************************************)
EXTENDS Integers, Sequences, FiniteSets, TLC

\* ------------------------------------------------------------------ bounds
\* events the backend delivers on one subscription
MaxEvents == 2
\* parts of one backend prompt (or command) result
MaxParts == 2
\* chunks of one prompt, where every sequence of chunks is drawn
MaxChunks == 2

\* ------------------------------------------------------------------ strings
SLASH == "/"
SPACE == " "
Undefined == <<"<undefined>">>
EmptyString == <<>>
DefaultModel == <<"default">>

\* String.prototype.startsWith with a one-atom prefix
StartsWith(s, a) == Len(s) > 0 /\ s[1] = a

\* String.prototype.slice(1)
Slice1(s) == IF Len(s) = 0 THEN s ELSE SubSeq(s, 2, Len(s))

\* String.prototype.split(sep): the segments between the separators
RECURSIVE SplitFrom(_, _, _, _)
SplitFrom(s, sep, i, cur) ==
    IF i > Len(s) THEN <<cur>>
    ELSE IF s[i] = sep THEN <<cur>> \o SplitFrom(s, sep, i + 1, <<>>)
    ELSE SplitFrom(s, sep, i + 1, Append(cur, s[i]))

Split(s, sep) == SplitFrom(s, sep, 1, <<>>)

\* Array.prototype.join(sep)
RECURSIVE Join(_, _)
Join(segs, sep) ==
    IF Len(segs) = 0 THEN <<>>
    ELSE IF Len(segs) = 1 THEN segs[1]
    ELSE segs[1] \o <<sep>> \o Join(Tail(segs), sep)

\* array destructuring: the i-th element, undefined past the end
Nth(segs, i) == IF i <= Len(segs) THEN segs[i] ELSE Undefined

\* a || b on strings: undefined and "" are falsy
OrElse(a, b) == IF a = Undefined \/ a = EmptyString THEN b ELSE a

\* ------------------------------------------------------------------ registry
SessionIds == {"s1", "s2"}
\* a list of modes that has one mode more
AvailableModes_Wider == {"default", "acceptEdits", "plan", "yolo"}

AvailableModes == {"default", "acceptEdits", "plan"}

\* this.sessions[id] = { id, cancelled: false, currentMode: "default" }
NewSessionRecord(id) ==
    [id |-> id, cancelled |-> FALSE, currentModel |-> Undefined,
     currentMode |-> "default"]

Put(f, k, v) == [x \in (DOMAIN f) \cup {k} |-> IF x = k THEN v ELSE f[x]]

\* ------------------------------------------------------------------ prompt content
\* a chunk of PromptRequest.prompt; a field the chunk lacks is Undefined
Chunk(type, text, uri, data) ==
    [type |-> type, text |-> text, uri |-> uri, data |-> data,
     mimeType |-> IF data = Undefined THEN Undefined ELSE <<"image/png">>]

TextChunk(t) == Chunk("text", t, Undefined, Undefined)
LinkChunk(u) == Chunk("resource_link", Undefined, u, Undefined)
ResourceChunk(u, t) == Chunk("resource", t, u, Undefined)
ImageChunk(d) == Chunk("image", Undefined, Undefined, d)
AudioChunk(d) == Chunk("audio", Undefined, Undefined, d)

Hello == <<"Hello">>
CmdInit == <<SLASH, "init">>
CmdCompact == <<SLASH, "compact">>
CmdReview == <<SLASH, "review", SPACE, "auth", SPACE, "code">>
CmdReviewBare == <<SLASH, "review">>
CmdUnknown == <<SLASH, "foo">>
Uri == <<"a.ts">>
Png == <<"iVBOR">>

\* a backend message part input: TextPartInput | FilePartInput
BackendPart(type, text, mime, url) ==
    [type |-> type, text |-> text, mime |-> mime, url |-> url]

\* `[@${uri}](${uri})`
LinkText(u) == <<"[@">> \o u \o <<"](">> \o u \o <<")">>

\* a converter with no test for the text of an embedded resource
ChunkToParts_AnyResource(chunk) ==
    CASE chunk.type = "text" ->
           <<BackendPart("text", chunk.text, Undefined, Undefined)>>
      [] chunk.type = "resource_link" ->
           <<BackendPart("text", LinkText(chunk.uri), Undefined, Undefined)>>
      [] chunk.type = "resource" ->
           <<BackendPart("text", LinkText(chunk.uri) \o <<"\n\n">> \o chunk.text,
                         Undefined, Undefined)>>
      [] chunk.type = "image" ->
           IF chunk.data # Undefined /\ chunk.data # EmptyString
           THEN <<BackendPart("file", Undefined, chunk.mimeType, chunk.data)>>
           ELSE <<>>
      [] OTHER -> <<>>

ChunkToParts(chunk) ==
    CASE chunk.type = "text" ->
           <<BackendPart("text", chunk.text, Undefined, Undefined)>>
      [] chunk.type = "resource_link" ->
           <<BackendPart("text", LinkText(chunk.uri), Undefined, Undefined)>>
      [] chunk.type = "resource" ->
           IF chunk.text # Undefined
           THEN <<BackendPart("text", LinkText(chunk.uri) \o <<"\n\n">> \o chunk.text,
                              Undefined, Undefined)>>
           ELSE <<>>
      [] chunk.type = "image" ->
           IF chunk.data # Undefined /\ chunk.data # EmptyString
           THEN <<BackendPart("file", Undefined, chunk.mimeType, chunk.data)>>
           ELSE <<>>
      [] OTHER -> <<>>

RECURSIVE promptToOpencode(_)
promptToOpencode(prompt) ==
    IF Len(prompt) = 0 THEN <<>>
    ELSE ChunkToParts(Head(prompt)) \o promptToOpencode(Tail(prompt))

\* params.prompt.find((p) => p.type === "text")?.text || ""
RECURSIVE FindText(_)
FindText(prompt) ==
    IF Len(prompt) = 0 THEN Undefined
    ELSE IF Head(prompt).type = "text" THEN Head(prompt).text
    ELSE FindText(Tail(prompt))

TextContent(prompt) == OrElse(FindText(prompt), EmptyString)

\* a test that looks at the first chunk only, whatever its type
IsSlashCommand_FirstChunk(prompt) ==
    /\ Len(prompt) > 0
    /\ Head(prompt).type = "text"
    /\ StartsWith(Head(prompt).text, SLASH)

\* textContent.startsWith("/")
IsSlashCommand(prompt) == StartsWith(TextContent(prompt), SLASH)

\* const [commandName, ...args] = command.slice(1).split(" ")
CommandName(command) == Nth(Split(Slice1(command), SPACE), 1)

CommandText(command) == Join(Tail(Split(Slice1(command), SPACE)), SPACE)

\* const [providerID, modelID] = (session.currentModel || "default").split("/")
ModelOf(session) == OrElse(session.currentModel, DefaultModel)

ProviderID(session) == Nth(Split(ModelOf(session), SLASH), 1)

ModelID(session) == Nth(Split(ModelOf(session), SLASH), 2)

\* ------------------------------------------------------------------ backend data
\* a part of a backend result: TextPart | ToolPart | ReasoningPart | FilePart
\* (text: the part's text, or the tool's state.output; status: the tool's state.status)
ResultPart(type, text, status) == [type |-> type, text |-> text, status |-> status]

AnswerText == ResultPart("text", <<"answer">>, "none")
ReasoningText == ResultPart("reasoning", <<"because">>, "none")
ToolCompleted == ResultPart("tool", <<"output">>, "completed")
ToolRunning == ResultPart("tool", Undefined, "running")
FileOut == ResultPart("file", Undefined, "none")

\* an event of the subscription feed: its type, the text (or id) of its
\* properties, Undefined for an event without properties, and the backend
\* session it is about ("none": not told)
SessionEvent(sessionID, type, text) ==
    [type |-> type, text |-> text, sessionID |-> sessionID]

StreamEvent(type, text) == SessionEvent("none", type, text)

\* ------------------------------------------------------------------ notifications
\* the argument of client.sessionUpdate
Update(sessionId, kind, text, status) ==
    [sessionId |-> sessionId, sessionUpdate |-> kind, text |-> text, status |-> status]

\* an entry of a request's log of delivered notifications: the update, the loop
\* that sent it, the index of the event or part it was made from, and whether
\* the session's cancelled flag was set when it was sent
Sent(u, src, n, late) == [u |-> u, src |-> src, n |-> n, late |-> late]

\* the event types whose case reads a field of event.properties: without
\* properties the read throws, and the catch of handleStreamEvent logs it
ReadsProperties ==
    {"tool_start", "tool_update", "tool_complete", "text_delta", "reasoning_delta"}

\* a translator that has no case for tool_update
TranslateEvent_NoToolUpdate(sessionId, event) ==
    IF event.type \in ReadsProperties /\ event.text = Undefined THEN <<>>
    ELSE
    CASE event.type = "tool_start" ->
           <<Update(sessionId, "tool_call", event.text, "pending")>>
      [] event.type = "tool_complete" ->
           <<Update(sessionId, "tool_call_update", event.text, "completed")>>
      [] event.type = "text_delta" ->
           <<Update(sessionId, "agent_message_chunk", event.text, "none")>>
      [] event.type = "reasoning_delta" ->
           <<Update(sessionId, "agent_thought_chunk", event.text, "none")>>
      [] event.type = "plan_update" ->
           <<Update(sessionId, "plan", OrElse(event.text, EmptyString), "none")>>
      [] OTHER -> <<>>

\* handleStreamEvent's switch: the updates (none or one) made from an event;
\* event.properties?.plan || [] is the one read that takes missing properties
TranslateEvent(sessionId, event) ==
    IF event.type \in ReadsProperties /\ event.text = Undefined THEN <<>>
    ELSE
    CASE event.type = "tool_start" ->
           <<Update(sessionId, "tool_call", event.text, "pending")>>
      [] event.type = "tool_update" ->
           <<Update(sessionId, "tool_call_update", event.text, "in_progress")>>
      [] event.type = "tool_complete" ->
           <<Update(sessionId, "tool_call_update", event.text, "completed")>>
      [] event.type = "text_delta" ->
           <<Update(sessionId, "agent_message_chunk", event.text, "none")>>
      [] event.type = "reasoning_delta" ->
           <<Update(sessionId, "agent_thought_chunk", event.text, "none")>>
      [] event.type = "plan_update" ->
           <<Update(sessionId, "plan", OrElse(event.text, EmptyString), "none")>>
      [] OTHER -> <<>>

\* the body of the final-result loop: the updates (none or one) made from a part
TranslatePart(sessionId, part) ==
    CASE part.type = "text" ->
           <<Update(sessionId, "agent_message_chunk", part.text, "none")>>
      [] part.type = "tool" ->
           IF part.status = "completed"
           THEN <<Update(sessionId, "agent_thought_chunk", part.text, "none")>>
           ELSE <<>>
      [] part.type = "reasoning" ->
           <<Update(sessionId, "agent_thought_chunk", part.text, "none")>>
      [] OTHER -> <<>>

\* a backend call as the gateway sees it
Call(name, sid, providerID, modelID, parts) ==
    [name |-> name, sid |-> sid, providerID |-> providerID, modelID |-> modelID,
     parts |-> parts]

SimpleCall(name, sid) == Call(name, sid, Undefined, Undefined, <<>>)

\* ------------------------------------------------------------------ state
Reqs == {1, 2}

VARIABLES
    opencodeClient,  \* this.opencodeClient is set (TRUE) or null (FALSE)
    sessions,        \* this.sessions: session id -> Session
    req,             \* the handler invocations in flight: slot -> its frame
    stream,          \* slot -> the event subscription its prompt opened
    timers,          \* session ids whose setTimeout callback is pending
    oob              \* session id -> the notifications the callback delivered

vars == <<opencodeClient, sessions, req, stream, timers, oob>>

\* the frame of a handler invocation: its position (pc), its request (op, sid,
\* prompt, arg), its locals, and what it has done so far: the notifications
\* delivered (sent), the backend calls issued (calls), how each call that has
\* returned ended (answers), the response (resp, out), and the registry entry
\* as the handler's lookup found it (found: none or one)
IdleReq ==
    [pc |-> "idle", op |-> "none", sid |-> "none", prompt |-> <<>>,
     arg |-> Undefined, parts |-> <<>>, providerID |-> Undefined,
     modelID |-> Undefined, path |-> "none", result |-> <<>>, idx |-> 0,
     sent |-> <<>>, calls |-> <<>>, answers |-> <<>>, resp |-> "none",
     out |-> Undefined, found |-> <<>>, data |-> <<>>, lost |-> <<>>]

NoStream == [st |-> "none", arrived |-> <<>>, consumed |-> 0]

Frame(op, sid, prompt, arg) ==
    [IdleReq EXCEPT !.op = op, !.sid = sid, !.prompt = prompt, !.arg = arg]

\* the handler returns or throws: resp is the stop reason or the error
Finish(q, resp) == [q EXCEPT !.pc = "done", !.resp = resp]

\* the handler suspends at an await of backend call c
Await(q, pc, c) == [q EXCEPT !.pc = pc, !.calls = Append(@, c)]

\* the awaited backend call returns: outcome is how
Answer(q, outcome) == [q EXCEPT !.answers = Append(@, outcome)]

\* this.sessions[sid].cancelled, for a session that is registered
Cancelled(sid) == sid \in DOMAIN sessions /\ sessions[sid].cancelled

\* a delivery that puts each notification ahead of the ones sent before it
Deliver_Ahead(q, us, src, n) ==
    [q EXCEPT !.sent = [i \in 1..Len(us) |-> Sent(us[i], src, n, Cancelled(q.sid))] \o @]

\* await this.client.sessionUpdate(u) for each u of us (none or one), resolved
Deliver(q, us, src, n) ==
    [q EXCEPT !.sent = @ \o [i \in 1..Len(us) |-> Sent(us[i], src, n, Cancelled(q.sid))]]

\* a lookup that takes every id the front end can name for a registered one
Registered_AnyId(ss, sid) == sid \in SessionIds

\* this.sessions[params.sessionId] is set
Registered(ss, sid) == sid \in DOMAIN ss

\* const session = this.sessions[params.sessionId]
Lookup(q, ss) ==
    [q EXCEPT !.found = IF q.sid \in DOMAIN ss THEN <<ss[q.sid]>> ELSE <<>>]

\* the sends of updates us are rejected: they are logged as lost
Reject(q, us, src, n) ==
    [q EXCEPT !.lost = @ \o [i \in 1..Len(us) |-> Sent(us[i], src, n, Cancelled(q.sid))]]

\* a free slot takes the next request; slots are taken lowest first
Free(r) == req[r].pc = "idle" /\ \A q \in Reqs : q < r => req[q].pc # "idle"

Init ==
    /\ opencodeClient = FALSE
    /\ sessions = [s \in {} |-> NewSessionRecord(s)]
    /\ req = [r \in Reqs |-> IdleReq]
    /\ stream = [r \in Reqs |-> NoStream]
    /\ timers = {}
    /\ oob = [s \in SessionIds |-> <<>>]

\* the front end has the response; the frame and an abandoned subscription go
Return(r) ==
    /\ req[r].pc = "done"
    /\ req' = [req EXCEPT ![r] = IdleReq]
    /\ stream' = [stream EXCEPT ![r] = NoStream]
    /\ UNCHANGED <<opencodeClient, sessions, timers, oob>>

\* ------------------------------------------------------------------ initialize
\* an initialize that attaches as a client after every failure
initialize_AttachAlways(r, outcome) ==
    /\ Free(r)
    /\ opencodeClient' = TRUE
    /\ req' = [req EXCEPT ![r] =
                 Finish(Answer(Frame("initialize", "none", <<>>, Undefined), outcome),
                        "ok")]
    /\ UNCHANGED <<sessions, stream, timers, oob>>

\* an initialize whose failure leaves the bridge without a client
initialize_DropsClient(r, outcome) ==
    /\ Free(r)
    /\ opencodeClient' = (outcome \in {"started", "EADDRINUSE"})
    /\ req' = [req EXCEPT ![r] =
                 Finish(Answer(Frame("initialize", "none", <<>>, Undefined), outcome),
                        IF outcome = "failed" THEN "connect failed" ELSE "ok")]
    /\ UNCHANGED <<sessions, stream, timers, oob>>

\* createOpencode starts the server ("started"), fails on a bound port
\* ("EADDRINUSE": attach as a client) or fails otherwise ("failed": rethrown)
initialize(r, outcome) ==
    /\ Free(r)
    /\ opencodeClient' = (opencodeClient \/ outcome \in {"started", "EADDRINUSE"})
    /\ req' = [req EXCEPT ![r] =
                 Finish(Answer(Frame("initialize", "none", <<>>, Undefined), outcome),
                        IF outcome = "failed" THEN "connect failed" ELSE "ok")]
    /\ UNCHANGED <<sessions, stream, timers, oob>>

\* ------------------------------------------------- authenticate, _session_list
\* authenticate throws whatever it is given
authenticate(r) ==
    /\ Free(r)
    /\ req' = [req EXCEPT ![r] =
                 Finish(Frame("authenticate", "none", <<>>, Undefined),
                        "Authentication not required")]
    /\ UNCHANGED <<opencodeClient, sessions, stream, timers, oob>>

\* _session_list up to its await of session.list
listSessions(r) ==
    /\ Free(r)
    /\ LET q == Frame("listSessions", "none", <<>>, Undefined) IN
       req' = [req EXCEPT ![r] =
                 IF ~opencodeClient THEN Finish(q, "opencode client not initialized")
                 ELSE Await(q, "list", SimpleCall("session.list", "none"))]
    /\ UNCHANGED <<opencodeClient, sessions, stream, timers, oob>>

\* session.list returns the sessions ("ok"), no data (an empty list is
\* returned), an error, or rejects
listSessionsReturned(r, outcome) ==
    /\ req[r].pc = "list"
    /\ req' = [req EXCEPT ![r] =
                 CASE outcome = "error" ->
                        Finish(Answer(@, outcome), "Failed to list sessions")
                   [] outcome = "throw" -> Finish(Answer(@, outcome), "rejected")
                   [] OTHER -> Finish(Answer(@, outcome), "ok")]
    /\ UNCHANGED <<opencodeClient, sessions, stream, timers, oob>>

\* ------------------------------------------------------------------ cancel
\* an assignment that flips the flag
MarkCancelled_Toggle(ss, sid) == [ss EXCEPT ![sid].cancelled = ~@]

\* a cancel that takes the session out of the registry
MarkCancelled_Removes(ss, sid) == [s \in DOMAIN ss \ {sid} |-> ss[s]]

\* session.cancelled = true
MarkCancelled(ss, sid) == [ss EXCEPT ![sid].cancelled = TRUE]

\* cancel up to its await: the lookup, the flag, and the call of session.abort
\* if there is a backend client
cancel(r, sid) ==
    /\ Free(r)
    /\ LET q == Lookup(Frame("cancel", sid, <<>>, Undefined), sessions) IN
       IF ~Registered(sessions, sid)
       THEN /\ req' = [req EXCEPT ![r] = Finish(q, "Session not found")]
            /\ UNCHANGED sessions
       ELSE /\ sessions' = MarkCancelled(sessions, sid)
            /\ req' = [req EXCEPT ![r] =
                         IF opencodeClient
                         THEN Await(q, "abort", SimpleCall("session.abort", sid))
                         ELSE Finish(q, "ok")]
    /\ UNCHANGED <<opencodeClient, stream, timers, oob>>

\* a handler that lets the rejection of session.abort leave cancel
OnAborted_Rethrow(q, outcome) ==
    IF outcome = "throw" THEN Finish(Answer(q, outcome), "rejected")
    ELSE Finish(Answer(q, outcome), "ok")

\* the handler after session.abort: its result is not looked at, and its
\* rejection is caught and logged
OnAborted(q, outcome) == Finish(Answer(q, outcome), "ok")

\* session.abort returns (a result, an error or no data) or rejects ("throw")
cancelAborted(r, outcome) ==
    /\ req[r].pc = "abort"
    /\ req' = [req EXCEPT ![r] = OnAborted(req[r], outcome)]
    /\ UNCHANGED <<opencodeClient, sessions, stream, timers, oob>>

\* ------------------------------------------------------------------ setSessionModel
\* an assignment that reaches every registered session
SetModel_EverySession(ss, sid, modelId) ==
    [s \in DOMAIN ss |-> [ss[s] EXCEPT !.currentModel = modelId]]

\* session.currentModel = params.modelId
SetModel(ss, sid, modelId) == [ss EXCEPT ![sid].currentModel = modelId]

setSessionModel(r, sid, modelId) ==
    /\ Free(r)
    /\ LET q == Lookup(Frame("setSessionModel", sid, <<>>, modelId), sessions) IN
       IF ~Registered(sessions, sid)
       THEN /\ req' = [req EXCEPT ![r] = Finish(q, "Session not found")]
            /\ UNCHANGED sessions
       ELSE /\ sessions' = SetModel(sessions, sid, modelId)
            /\ req' = [req EXCEPT ![r] = Finish(q, "ok")]
    /\ UNCHANGED <<opencodeClient, stream, timers, oob>>

\* ------------------------------------------------------------------ setSessionMode
\* an assignment that is left out
SetMode_Skipped(ss, sid, modeId) == ss

SetMode(ss, sid, modeId) == [ss EXCEPT ![sid].currentMode = modeId]

\* sendOk: the current_mode_update notification resolves, or rejects
setSessionMode(r, sid, modeId, sendOk) ==
    /\ Free(r)
    /\ LET q == Lookup(Frame("setSessionMode", sid, <<>>, modeId), sessions) IN
       IF ~Registered(sessions, sid)
       THEN /\ req' = [req EXCEPT ![r] = Finish(q, "Session not found")]
            /\ UNCHANGED sessions
       ELSE IF modeId \notin AvailableModes
       THEN /\ req' = [req EXCEPT ![r] = Finish(q, "Invalid mode")]
            /\ UNCHANGED sessions
       ELSE /\ sessions' = SetMode(sessions, sid, modeId)
            /\ req' = [req EXCEPT ![r] =
                         IF sendOk
                         THEN Finish(Deliver(q, <<Update(sid, "current_mode_update",
                                                         modeId, "none")>>, "mode", 1),
                                     "ok")
                         ELSE Finish(q, "send rejected")]
    /\ UNCHANGED <<opencodeClient, stream, timers, oob>>

\* ------------------------------------------------------------------ newSession
\* a provider of the catalog: its id and the keys of its models object
\* (Undefined: the provider has no models object)
Provider(id, models) == [id |-> id, models |-> models]

\* `${provider.id}/${modelId}`
ModelIdOf(providerId, modelId) == providerId \o <<SLASH>> \o modelId

\* providersData.providers.flatMap(...): the model ids, in catalog order
RECURSIVE FlattenCatalog(_)
FlattenCatalog(providers) ==
    IF Len(providers) = 0 THEN <<>>
    ELSE LET p == Head(providers) IN
         (IF p.models = Undefined THEN <<>>
          ELSE [i \in 1..Len(p.models) |-> ModelIdOf(p.id, p.models[i])])
         \o FlattenCatalog(Tail(providers))

\* a choice of the last model of the list as the current one
FirstModel_Last(available) ==
    IF Len(available) = 0 THEN DefaultModel
    ELSE OrElse(available[Len(available)], DefaultModel)

\* availableModels[0]?.modelId || "default"
FirstModel(available) ==
    IF Len(available) = 0 THEN DefaultModel ELSE OrElse(available[1], DefaultModel)

\* a models object that lists the catalog as it is, without the synthetic entry
Models_AsListed(available, current) ==
    [availableModels |-> available, currentModelId |-> current]

\* the models object of a newSession / loadSession response
Models(available, current) ==
    [availableModels |-> IF Len(available) > 0 THEN available ELSE <<DefaultModel>>,
     currentModelId |-> current]

\* a check of the working directory that lets the empty string through
CwdMissing_OnlyUndefined(cwd) == cwd = Undefined

\* !params.cwd
CwdMissing(cwd) == cwd = EmptyString \/ cwd = Undefined

\* a response without a models object: {}
NoModels == [availableModels |-> <<>>, currentModelId |-> Undefined]

newSession(r, cwd) ==
    /\ Free(r)
    /\ LET q == Frame("newSession", "none", <<>>, cwd) IN
       req' = [req EXCEPT ![r] =
                 IF ~opencodeClient THEN Finish(q, "opencode client not initialized")
                 ELSE IF CwdMissing(cwd)
                 THEN Finish(q, "cwd is required")
                 ELSE Await(q, "create", SimpleCall("session.create", "none"))]
    /\ UNCHANGED <<opencodeClient, sessions, stream, timers, oob>>

\* session.create returns a session ("ok", with its id), an error or no data,
\* or rejects ("throw")
newSessionCreated(r, outcome, id) ==
    /\ req[r].pc = "create"
    /\ IF outcome = "ok"
       THEN /\ id \notin DOMAIN sessions
            /\ sessions' = Put(sessions, id, NewSessionRecord(id))
            /\ req' = [req EXCEPT ![r] =
                         Await(Answer([@ EXCEPT !.sid = id], outcome), "providers",
                               SimpleCall("config.providers", id))]
       ELSE /\ req' = [req EXCEPT ![r] =
                         Finish(Answer(@, outcome), "Failed to create opencode session")]
            /\ UNCHANGED sessions
    /\ UNCHANGED <<opencodeClient, stream, timers, oob>>

\* config.providers returns the catalog ("ok"), an error or no providers, or rejects
newSessionProviders(r, outcome, catalog) ==
    /\ req[r].pc = "providers"
    /\ LET sid == req[r].sid
           available == FlattenCatalog(catalog)
           defaultModel == FirstModel(available)
       IN
       CASE outcome = "ok" ->
              /\ sessions' = SetModel(sessions, sid, defaultModel)
              /\ timers' = timers \cup {sid}
              /\ req' = [req EXCEPT ![r] =
                           Finish([Answer(@, outcome) EXCEPT
                                     !.data = catalog,
                                     !.out = Models(available, defaultModel)], "ok")]
         [] outcome = "throw" ->
              /\ req' = [req EXCEPT ![r] = Finish(Answer(@, outcome), "rejected")]
              /\ UNCHANGED <<sessions, timers>>
         [] OTHER ->
              /\ req' = [req EXCEPT ![r] =
                           Finish([Answer(@, outcome) EXCEPT
                                     !.out = Models(<<>>, DefaultModel)], "ok")]
              /\ UNCHANGED <<sessions, timers>>
    /\ UNCHANGED <<opencodeClient, stream, oob>>

\* a callback that drops the session when one of its notifications is rejected
timerFires_DropsSession(sid, ok1, ok2) ==
    /\ sid \in timers
    /\ timers' = timers \ {sid}
    /\ oob' = [oob EXCEPT ![sid] =
                 @ \o (IF ok1 THEN <<Update(sid, "available_commands_update",
                                            Undefined, "none")>> ELSE <<>>)
                   \o (IF ok2 THEN <<Update(sid, "current_mode_update",
                                            "default", "none")>> ELSE <<>>)]
    /\ sessions' = IF ok1 /\ ok2 THEN sessions
                   ELSE [s \in DOMAIN sessions \ {sid} |-> sessions[s]]
    /\ UNCHANGED <<opencodeClient, req, stream>>

\* the setTimeout callback of newSession: two notifications, neither awaited
timerFires(sid, ok1, ok2) ==
    /\ sid \in timers
    /\ timers' = timers \ {sid}
    /\ oob' = [oob EXCEPT ![sid] =
                 @ \o (IF ok1 THEN <<Update(sid, "available_commands_update",
                                            Undefined, "none")>> ELSE <<>>)
                   \o (IF ok2 THEN <<Update(sid, "current_mode_update",
                                            "default", "none")>> ELSE <<>>)]
    /\ UNCHANGED <<opencodeClient, sessions, req, stream>>

\* ------------------------------------------------------------------ loadSession
\* a part of a message of the backend history, with its message's role
HistoryPart(role, type, text) ==
    [role |-> role, type |-> type, text |-> text, status |-> "none"]

\* the body of the replay loop: the updates (none or one) made from a part
TranslateHistory(sessionId, part) ==
    CASE part.type = "text" ->
           <<Update(sessionId,
                    IF part.role = "user" THEN "user_message_chunk"
                    ELSE "agent_message_chunk", part.text, "none")>>
      [] part.type = "reasoning" /\ part.role = "assistant" ->
           <<Update(sessionId, "agent_thought_chunk", part.text, "none")>>
      [] OTHER -> <<>>

loadSession(r, sid, cwd) ==
    /\ Free(r)
    /\ LET q == Frame("loadSession", sid, <<>>, cwd) IN
       req' = [req EXCEPT ![r] =
                 IF ~opencodeClient THEN Finish(q, "opencode client not initialized")
                 ELSE IF CwdMissing(cwd)
                 THEN Finish(q, "cwd is required")
                 ELSE Await(q, "get", SimpleCall("session.get", sid))]
    /\ UNCHANGED <<opencodeClient, sessions, stream, timers, oob>>

\* a handler that registers the session before it looks at the answer
loadSessionFetched_RegistersFirst(r, outcome, held) ==
    /\ req[r].pc = "get"
    /\ outcome = "ok" => req[r].sid \in held
    /\ LET sid == req[r].sid IN
       /\ sessions' = Put(sessions, sid, NewSessionRecord(sid))
       /\ req' = [req EXCEPT ![r] =
                    IF outcome = "ok"
                    THEN Await(Answer(@, outcome), "lproviders",
                               SimpleCall("config.providers", sid))
                    ELSE Finish(Answer(@, outcome), "Failed to load opencode session")]
    /\ UNCHANGED <<opencodeClient, stream, timers, oob>>

\* session.get returns the session ("ok": the backend holds it), an error or no
\* data, or rejects
loadSessionFetched(r, outcome, held) ==
    /\ req[r].pc = "get"
    /\ outcome = "ok" => req[r].sid \in held
    /\ LET sid == req[r].sid IN
       IF outcome = "ok"
       THEN /\ sessions' = Put(sessions, sid, NewSessionRecord(sid))
            /\ req' = [req EXCEPT ![r] =
                         Await(Answer(@, outcome), "lproviders",
                               SimpleCall("config.providers", sid))]
       ELSE /\ req' = [req EXCEPT ![r] =
                         Finish(Answer(@, outcome), "Failed to load opencode session")]
            /\ UNCHANGED sessions
    /\ UNCHANGED <<opencodeClient, stream, timers, oob>>

loadSessionProviders(r, outcome, catalog) ==
    /\ req[r].pc = "lproviders"
    /\ LET sid == req[r].sid
           available == FlattenCatalog(catalog)
           defaultModel == FirstModel(available)
       IN
       CASE outcome = "ok" ->
              /\ sessions' = SetModel(sessions, sid, defaultModel)
              /\ req' = [req EXCEPT ![r] =
                           Await([Answer(@, outcome) EXCEPT
                                    !.out = Models(available, defaultModel)],
                                 "messages", SimpleCall("session.messages", sid))]
         [] outcome = "throw" ->
              /\ req' = [req EXCEPT ![r] = Finish(Answer(@, outcome), "rejected")]
              /\ UNCHANGED sessions
         [] OTHER ->
              \* return {}
              /\ req' = [req EXCEPT ![r] =
                           Finish([Answer(@, outcome) EXCEPT !.out = NoModels], "ok")]
              /\ UNCHANGED sessions
    /\ UNCHANGED <<opencodeClient, stream, timers, oob>>

\* session.messages returns the history ("ok"), no data, or rejects
loadSessionMessages(r, outcome, history) ==
    /\ req[r].pc = "messages"
    /\ req' = [req EXCEPT ![r] =
                 CASE outcome = "ok" ->
                        [Answer(@, outcome) EXCEPT !.pc = "replay", !.result = history,
                                                   !.idx = 1]
                   [] outcome = "throw" -> Finish(Answer(@, outcome), "rejected")
                   [] OTHER ->
                        [Answer(@, outcome) EXCEPT !.pc = "replay", !.result = <<>>,
                                                   !.idx = 1]]
    /\ UNCHANGED <<opencodeClient, sessions, stream, timers, oob>>

\* one turn of the replay loop, or its end; sendOk: the notification resolves
loadSessionReplay(r, sendOk) ==
    /\ req[r].pc = "replay"
    /\ LET q == req[r]
           us == TranslateHistory(q.sid, q.result[q.idx])
       IN
       req' = [req EXCEPT ![r] =
                 IF q.idx > Len(q.result) THEN Finish(q, "ok")
                 ELSE IF Len(us) > 0 /\ ~sendOk THEN Finish(q, "send rejected")
                 ELSE [Deliver(q, us, "replay", q.idx) EXCEPT !.idx = q.idx + 1]]
    /\ UNCHANGED <<opencodeClient, sessions, stream, timers, oob>>

\* ------------------------------------------------------------------ prompt
\* checks that turn away the prompt on a session whose flag is set
PromptCheck_RefusesCancelled(sid) ==
    IF ~Registered(sessions, sid) THEN "Session not found"
    ELSE IF ~opencodeClient THEN "opencode client not initialized"
    ELSE IF Cancelled(sid) THEN "Session cancelled"
    ELSE "ok"

\* the checks at the head of prompt: the error thrown, or "ok"
PromptCheck(sid) ==
    IF ~Registered(sessions, sid) THEN "Session not found"
    ELSE IF ~opencodeClient THEN "opencode client not initialized"
    ELSE "ok"

\* prompt up to its first await: the checks, the conversion of the content, the
\* split of the session's model, and the call of event.subscribe
prompt(r, sid, content) ==
    /\ Free(r)
    /\ PromptCheck(sid) = "ok" => ~IsSlashCommand(content)
    /\ LET q == Lookup(Frame("prompt", sid, content, Undefined), sessions) IN
       req' = [req EXCEPT ![r] =
                 IF PromptCheck(sid) # "ok" THEN Finish(q, PromptCheck(sid))
                 ELSE Await([q EXCEPT !.parts = promptToOpencode(content),
                                      !.providerID = ProviderID(sessions[sid]),
                                      !.modelID = ModelID(sessions[sid])],
                            "subscribe", SimpleCall("event.subscribe", "none"))]
    /\ UNCHANGED <<opencodeClient, sessions, stream, timers, oob>>

\* the session.prompt call of both paths
PromptCall(q) == Call("session.prompt", q.sid, q.providerID, q.modelID, q.parts)

\* a handler that lets the rejection of event.subscribe fail the prompt
OnSubscribed_Rethrow(q, outcome) ==
    IF outcome = "throw" THEN Finish(Answer(q, outcome), "rejected")
    ELSE Await([Answer(q, outcome) EXCEPT !.path = "streaming"], "prompt", PromptCall(q))

\* a fallback that does not return: the call of promptNonStreaming is followed
\* by the call of the streaming path
OnSubscribed_FallsThrough(q, outcome) ==
    IF outcome = "throw"
    THEN Await(Await([Answer(q, outcome) EXCEPT !.path = "nonstreaming"],
                     "prompt", PromptCall(q)),
               "prompt", PromptCall(q))
    ELSE Await([Answer(q, outcome) EXCEPT !.path = "streaming"], "prompt", PromptCall(q))

\* the handler after event.subscribe: on a stream (or none) the streaming path,
\* on a rejection the catch block and promptNonStreaming; both call session.prompt
OnSubscribed(q, outcome) ==
    Await([Answer(q, outcome) EXCEPT
             !.path = IF outcome = "throw" THEN "nonstreaming" ELSE "streaming"],
          "prompt", PromptCall(q))

\* event.subscribe resolves with a stream ("stream") or without one ("nostream"),
\* or rejects ("throw")
promptSubscribed(r, outcome) ==
    /\ req[r].pc = "subscribe"
    /\ req' = [req EXCEPT ![r] = OnSubscribed(req[r], outcome)]
    /\ stream' = [stream EXCEPT ![r] =
                    IF outcome = "stream" THEN [NoStream EXCEPT !.st = "open"]
                    ELSE NoStream]
    /\ UNCHANGED <<opencodeClient, sessions, timers, oob>>

\* where the handler goes once session.prompt has returned a result: the drain
\* loop if (eventsStream), else the final-result loop
AfterPrompt(q, st) ==
    IF q.path = "streaming" /\ st # "none" THEN "drain" ELSE "final"

\* a handler without the check of result: no data is taken for a result
\* without parts
OnPromptReturned_NoResultCheck(q, outcome, parts, st) ==
    CASE outcome = "ok" ->
           [Answer(q, outcome) EXCEPT !.pc = AfterPrompt(q, st), !.result = parts,
                                      !.idx = 1]
      [] outcome = "error" -> Finish(Answer(q, outcome), "Prompt failed")
      [] outcome = "nodata" ->
           [Answer(q, outcome) EXCEPT !.pc = AfterPrompt(q, st), !.result = <<>>,
                                      !.idx = 1]
      [] OTHER -> Finish(Answer(q, outcome), "rejected")

\* a handler that looks at the flag and ends a cancelled session's prompt
OnPromptReturned_StopIfCancelled(q, outcome, parts, st) ==
    CASE Cancelled(q.sid) -> Finish(Answer(q, outcome), "cancelled")
      [] outcome = "ok" ->
           [Answer(q, outcome) EXCEPT !.pc = AfterPrompt(q, st), !.result = parts,
                                      !.idx = 1]
      [] outcome = "error" -> Finish(Answer(q, outcome), "Prompt failed")
      [] outcome = "nodata" -> Finish(Answer(q, outcome), "No result from prompt")
      [] OTHER -> Finish(Answer(q, outcome), "rejected")

\* the handler after session.prompt: the checks of error and of result
OnPromptReturned(q, outcome, parts, st) ==
    CASE outcome = "ok" ->
           [Answer(q, outcome) EXCEPT !.pc = AfterPrompt(q, st), !.result = parts,
                                      !.idx = 1]
      [] outcome = "error" -> Finish(Answer(q, outcome), "Prompt failed")
      [] outcome = "nodata" -> Finish(Answer(q, outcome), "No result from prompt")
      [] OTHER -> Finish(Answer(q, outcome), "rejected")

\* session.prompt returns a result ("ok", with its parts), an error or no data,
\* or rejects ("throw")
promptReturned(r, outcome, parts) ==
    /\ req[r].pc = "prompt"
    /\ req' = [req EXCEPT ![r] = OnPromptReturned(req[r], outcome, parts, stream[r].st)]
    /\ UNCHANGED <<opencodeClient, sessions, stream, timers, oob>>

\* the backend puts an event on an open subscription
streamEvent(r, event) ==
    /\ stream[r].st = "open"
    /\ Len(stream[r].arrived) < MaxEvents
    /\ stream' = [stream EXCEPT ![r].arrived = Append(@, event)]
    /\ UNCHANGED <<opencodeClient, sessions, req, timers, oob>>

\* the subscription ends ("closed") or breaks ("error")
streamEnds(r, how) ==
    /\ stream[r].st = "open"
    /\ stream' = [stream EXCEPT ![r].st = how]
    /\ UNCHANGED <<opencodeClient, sessions, req, timers, oob>>

\* the drain loop may read: an event is waiting, or the stream has ended
CanRead(s) == s.consumed < Len(s.arrived) \/ s.st \in {"closed", "error"}

\* a drain loop without the catch around it: an error of the feed fails the prompt
promptDrain_StreamErrorFails(r, sendOk) ==
    /\ req[r].pc = "drain"
    /\ CanRead(stream[r])
    /\ LET s == stream[r]
           n == s.consumed + 1
           us == TranslateEvent(req[r].sid, s.arrived[n])
       IN
       IF s.consumed < Len(s.arrived)
       THEN /\ stream' = [stream EXCEPT ![r].consumed = n]
            /\ req' = [req EXCEPT ![r] =
                         IF sendOk THEN Deliver(@, us, "stream", n)
                         ELSE Reject(@, us, "stream", n)]
       ELSE /\ req' = [req EXCEPT ![r] =
                         IF s.st = "error" THEN Finish(@, "rejected")
                         ELSE [@ EXCEPT !.pc = "final"]]
            /\ UNCHANGED stream
    /\ UNCHANGED <<opencodeClient, sessions, timers, oob>>

\* a drain loop whose handler has no catch: a rejected send ends the loop
promptDrain_NoCatch(r, sendOk) ==
    /\ req[r].pc = "drain"
    /\ CanRead(stream[r])
    /\ LET s == stream[r]
           n == s.consumed + 1
           us == TranslateEvent(req[r].sid, s.arrived[n])
       IN
       IF s.consumed < Len(s.arrived)
       THEN /\ stream' = [stream EXCEPT ![r].consumed = n]
            /\ req' = [req EXCEPT ![r] =
                         IF sendOk THEN Deliver(@, us, "stream", n)
                         ELSE [Reject(@, us, "stream", n) EXCEPT !.pc = "final"]]
       ELSE /\ req' = [req EXCEPT ![r].pc = "final"]
            /\ UNCHANGED stream
    /\ UNCHANGED <<opencodeClient, sessions, timers, oob>>

\* one turn of  for await (const event of eventsStream)  with handleStreamEvent,
\* or the loop's end (the stream is done, or its read throws and is caught);
\* sendOk: the notification resolves, or rejects and is caught and logged
promptDrain(r, sendOk) ==
    /\ req[r].pc = "drain"
    /\ CanRead(stream[r])
    /\ LET s == stream[r]
           n == s.consumed + 1
           us == TranslateEvent(req[r].sid, s.arrived[n])
       IN
       IF s.consumed < Len(s.arrived)
       THEN /\ stream' = [stream EXCEPT ![r].consumed = n]
            /\ req' = [req EXCEPT ![r] =
                         IF sendOk THEN Deliver(@, us, "stream", n)
                         ELSE Reject(@, us, "stream", n)]
       ELSE /\ req' = [req EXCEPT ![r].pc = "final"]
            /\ UNCHANGED stream
    /\ UNCHANGED <<opencodeClient, sessions, timers, oob>>

\* one turn of the final-result loop, or its end; sendOk: the notification
\* resolves, or rejects and fails the prompt
promptFinal(r, sendOk) ==
    /\ req[r].pc = "final"
    /\ LET q == req[r]
           us == TranslatePart(q.sid, q.result[q.idx])
       IN
       req' = [req EXCEPT ![r] =
                 IF q.idx > Len(q.result) THEN Finish(q, "end_turn")
                 ELSE IF Len(us) > 0 /\ ~sendOk THEN Finish(q, "send rejected")
                 ELSE [Deliver(q, us, "final", q.idx) EXCEPT !.idx = q.idx + 1]]
    /\ UNCHANGED <<opencodeClient, sessions, stream, timers, oob>>

\* ------------------------------------------------------------------ slash commands
INIT == <<"init">>
COMPACT == <<"compact">>
REVIEW == <<"review">>

\* commandText || "Review current code changes and provide findings"
ReviewPrompt(command) ==
    OrElse(CommandText(command), <<"Review current code changes and provide findings">>)

\* texts where the notice of an unknown command does not list the commands
ProgressText_NoList(command) ==
    CASE CommandName(command) = INIT ->
           <<"Creating AGENTS.md file with opencode instructions...">>
      [] CommandName(command) = COMPACT -> <<"Compacting conversation history...">>
      [] CommandName(command) = REVIEW -> <<"Starting review: ">> \o ReviewPrompt(command)
      [] OTHER -> <<"Unknown command: /">> \o CommandName(command)

\* the text of the notification sent before the backend call
ProgressText(command) ==
    CASE CommandName(command) = INIT ->
           <<"Creating AGENTS.md file with opencode instructions...">>
      [] CommandName(command) = COMPACT -> <<"Compacting conversation history...">>
      [] CommandName(command) = REVIEW -> <<"Starting review: ">> \o ReviewPrompt(command)
      [] OTHER -> <<"Unknown command: /">> \o CommandName(command)
                  \o <<". Available commands: /init, /compact, /review">>

\* the text of the notification sent after the backend call returned
ResultText(command, outcome) ==
    CASE CommandName(command) = INIT ->
           IF outcome = "ok" THEN <<"AGENTS.md created successfully!">>
           ELSE <<"Failed to create AGENTS.md: ">>
      [] CommandName(command) = COMPACT ->
           IF outcome = "ok" THEN <<"Conversation compacted successfully!">>
           ELSE <<"Failed to compact conversation: ">>
      [] OTHER -> <<"Review failed: ">>

ErrorText(command) == <<"Error executing command: /">> \o CommandName(command)

Notice(sid, text) == Update(sid, "agent_message_chunk", text, "none")

\* the backend call of a recognized command
CommandCall(sid, command) ==
    CASE CommandName(command) = INIT ->
           Call("session.init", sid, <<"acp">>, <<"default">>, <<>>)
      [] CommandName(command) = COMPACT ->
           Call("session.summarize", sid, <<"acp">>, <<"default">>, <<>>)
      [] OTHER ->
           Call("session.command", sid, Undefined, Undefined, <<ReviewPrompt(command)>>)

\* the catch block of handleSlashCommand: one more notification, awaited outside
\* any try; sendOk: it resolves, or rejects and the rejection leaves the handler
SlashCatch(q, command, sendOk) ==
    IF sendOk
    THEN Finish(Deliver(q, <<Notice(q.sid, ErrorText(command))>>, "catch", 1), "end_turn")
    ELSE Finish(q, "send rejected")

\* a try block that goes on to `next` without sending its notification
SlashSend_Silent(q, command, text, src, sendOk, catchOk, next) ==
    IF sendOk THEN [q EXCEPT !.pc = next]
    ELSE SlashCatch(q, command, catchOk)

\* a notification sent inside the try block, then `next`; a rejected send goes
\* to the catch block
SlashSend(q, command, text, src, sendOk, catchOk, next) ==
    IF sendOk THEN [Deliver(q, <<Notice(q.sid, text)>>, src, 1) EXCEPT !.pc = next]
    ELSE SlashCatch(q, command, catchOk)

\* prompt with a slash command, up to the first backend call: the checks of
\* prompt, then handleSlashCommand's first notification
promptSlash(r, sid, content, sendOk, catchOk) ==
    /\ Free(r)
    /\ PromptCheck(sid) = "ok"
    /\ IsSlashCommand(content)
    /\ LET command == TextContent(content)
           q == Lookup(Frame("prompt", sid, content, Undefined), sessions)
           known == CommandName(command) \in {INIT, COMPACT, REVIEW}
           sentq == SlashSend(q, command, ProgressText(command),
                              IF known THEN "progress" ELSE "unknown",
                              sendOk, catchOk, "command")
       IN
       req' = [req EXCEPT ![r] =
                 IF sentq.pc # "command" THEN sentq
                 ELSE IF known THEN Await(sentq, "command", CommandCall(sid, command))
                 ELSE Finish(sentq, "end_turn")]
    /\ UNCHANGED <<opencodeClient, sessions, stream, timers, oob>>

\* the backend call of the command returns a result ("ok", with its parts for
\* review), an error or no data, or rejects ("throw"); then the result
\* notification, or the start of the loop over a review's parts
promptSlashReturned(r, outcome, parts, sendOk, catchOk) ==
    /\ req[r].pc = "command"
    /\ LET q == Answer(req[r], outcome)
           command == TextContent(q.prompt)
       IN
       req' = [req EXCEPT ![r] =
                 IF outcome = "throw" THEN SlashCatch(q, command, catchOk)
                 ELSE IF CommandName(command) = REVIEW /\ outcome = "ok"
                 THEN [q EXCEPT !.pc = "review", !.result = parts, !.idx = 1]
                 ELSE LET sentq == SlashSend(q, command, ResultText(command, outcome),
                                             "result", sendOk, catchOk, "sent")
                      IN IF sentq.pc = "sent" THEN Finish(sentq, "end_turn") ELSE sentq]
    /\ UNCHANGED <<opencodeClient, sessions, stream, timers, oob>>

\* one turn of the loop over the parts of a review result, or its end
promptSlashReview(r, sendOk, catchOk) ==
    /\ req[r].pc = "review"
    /\ LET q == req[r]
           command == TextContent(q.prompt)
           part == q.result[q.idx]
       IN
       req' = [req EXCEPT ![r] =
                 IF q.idx > Len(q.result) THEN Finish(q, "end_turn")
                 ELSE IF part.type # "text" THEN [q EXCEPT !.idx = q.idx + 1]
                 ELSE IF ~sendOk THEN SlashCatch(q, command, catchOk)
                 ELSE [Deliver(q, <<Notice(q.sid, part.text)>>, "review", q.idx)
                         EXCEPT !.idx = q.idx + 1]]
    /\ UNCHANGED <<opencodeClient, sessions, stream, timers, oob>>

\* ------------------------------------------------------------------ inputs
SeqsUpTo(S, n) == UNION {[1..k -> S] : k \in 0..n}

Outcomes == {"ok", "error", "nodata", "throw"}

\* A scope names the inputs a specification draws from: the slots that run
\* handlers with awaits (slots) and handlers without (aslots), the session ids
\* requests name (sids) and the backend creates (ids), and the data of the
\* requests, of the backend's answers and of the event feed.
BridgeScope ==
    [slots |-> {1}, aslots |-> {1},
     sids |-> SessionIds, ids |-> {"s1"},
     inits |-> {"started", "EADDRINUSE", "failed"},
     cwds |-> {EmptyString, <<"/tmp">>},
     models |-> {<<"openai", SLASH, "gpt">>},
     modes |-> {"plan", "yolo"},
     prompts |-> {<<TextChunk(Hello)>>,
                  <<TextChunk(CmdInit)>>,
                  <<TextChunk(CmdCompact)>>,
                  <<TextChunk(CmdReview)>>,
                  <<TextChunk(CmdUnknown)>>,
                  <<ImageChunk(Png), TextChunk(CmdInit)>>,
                  <<TextChunk(Hello), TextChunk(CmdInit)>>},
     catalogs |-> {<<>>, <<Provider(<<"anthropic">>, <<<<"claude">>>>)>>},
     histories |-> {<<HistoryPart("user", "text", <<"question">>),
                      HistoryPart("assistant", "reasoning", <<"because">>)>>},
     subs |-> {"stream", "nostream", "throw"},
     parts |-> {AnswerText},
     events |-> {StreamEvent("text_delta", <<"answer">>)},
     sends |-> BOOLEAN, tsends |-> BOOLEAN]

\* the prompt path on one session, with the feed and the results at their widest
PromptScope ==
    [slots |-> {1}, aslots |-> {1},
     sids |-> SessionIds, ids |-> {"s1"},
     inits |-> {"started", "failed"},
     cwds |-> {<<"/tmp">>},
     models |-> {}, modes |-> {},
     prompts |-> {<<TextChunk(Hello)>>,
                  <<TextChunk(CmdInit)>>,
                  <<TextChunk(CmdCompact)>>,
                  <<TextChunk(CmdReview)>>,
                  <<TextChunk(CmdUnknown)>>,
                  <<ImageChunk(Png), TextChunk(CmdInit)>>},
     catalogs |-> {<<Provider(<<"anthropic">>, <<<<"claude">>>>)>>},
     histories |-> {<<HistoryPart("user", "text", <<"question">>)>>},
     subs |-> {"stream", "nostream", "throw"},
     parts |-> {AnswerText, ToolCompleted},
     events |-> {StreamEvent("text_delta", <<"answer">>),
                 StreamEvent("tool_start", <<"bash">>)},
     sends |-> BOOLEAN, tsends |-> {TRUE}]

\* the session operations alone, with the catalogs, modes and models at their
\* widest
SessionScope ==
    [slots |-> {1}, aslots |-> {1},
     sids |-> SessionIds, ids |-> {"s1"},
     inits |-> {"started", "EADDRINUSE", "failed"},
     cwds |-> {EmptyString, Undefined, <<"/tmp">>},
     models |-> {<<"openai", SLASH, "gpt">>, <<"gpt">>},
     modes |-> {"default", "acceptEdits", "plan", "yolo"},
     catalogs |-> {<<>>,
                   <<Provider(<<"openai">>, Undefined),
                     Provider(<<"anthropic">>, <<>>)>>,
                   <<Provider(<<"anthropic">>, <<<<"claude">>, <<"haiku">>>>),
                     Provider(<<"openai">>, <<<<"gpt">>>>)>>},
     histories |-> {<<HistoryPart("user", "text", <<"question">>),
                      HistoryPart("assistant", "reasoning", <<"because">>)>>,
                    <<HistoryPart("user", "reasoning", <<"hm">>),
                      HistoryPart("assistant", "tool", <<"ls">>),
                      HistoryPart("assistant", "text", <<"answer">>)>>},
     sends |-> BOOLEAN, tsends |-> BOOLEAN]

\* a prompt on one session with the other operations racing it from a second
\* slot, on the least data that runs every step
RaceScope ==
    [slots |-> {1}, aslots |-> Reqs,
     sids |-> {"s1"}, ids |-> {"s1"},
     inits |-> {"started"},
     cwds |-> {<<"/tmp">>},
     models |-> {<<"openai", SLASH, "gpt">>},
     modes |-> {"plan"},
     prompts |-> {<<TextChunk(Hello)>>},
     catalogs |-> {<<Provider(<<"anthropic">>, <<<<"claude">>>>)>>},
     histories |-> {<<HistoryPart("user", "text", <<"question">>)>>},
     subs |-> {"stream", "throw"},
     parts |-> {AnswerText},
     events |-> {StreamEvent("text_delta", <<"answer">>)},
     sends |-> {TRUE}, tsends |-> {TRUE}]

\* a prompt that is any sequence of chunks of every kind, on one session and the
\* least data that runs every step
ChunkKinds ==
    {TextChunk(Hello), LinkChunk(Uri), ResourceChunk(Uri, Hello),
     ResourceChunk(Uri, Undefined), ImageChunk(Png), ImageChunk(EmptyString),
     ImageChunk(Undefined), AudioChunk(Png)}

ConvertScope ==
    [slots |-> {1}, aslots |-> {1},
     sids |-> {"s1"}, ids |-> {"s1"},
     inits |-> {"started"},
     cwds |-> {<<"/tmp">>},
     prompts |-> SeqsUpTo(ChunkKinds, MaxChunks),
     catalogs |-> {<<Provider(<<"anthropic">>, <<<<"claude">>>>)>>},
     subs |-> {"throw"},
     parts |-> {AnswerText},
     sends |-> {TRUE}, tsends |-> {TRUE}]

\* a prompt whose feed delivers events of every type, with and without
\* properties, and whose result has no parts, on one session
EventKinds ==
    {StreamEvent("tool_start", <<"bash">>), StreamEvent("tool_update", <<"bash">>),
     StreamEvent("tool_complete", <<"bash">>), StreamEvent("text_delta", <<"answer">>),
     StreamEvent("reasoning_delta", <<"because">>), StreamEvent("plan_update", <<"steps">>),
     StreamEvent("session.idle", <<"s1">>),
     StreamEvent("text_delta", Undefined), StreamEvent("tool_start", Undefined),
     StreamEvent("plan_update", Undefined)}

EventScope ==
    [slots |-> {1}, aslots |-> {1},
     sids |-> {"s1"}, ids |-> {"s1"},
     inits |-> {"started"},
     cwds |-> {<<"/tmp">>},
     prompts |-> {<<TextChunk(Hello)>>},
     catalogs |-> {<<Provider(<<"anthropic">>, <<<<"claude">>>>)>>},
     subs |-> {"stream"},
     parts |-> {},
     events |-> EventKinds,
     sends |-> BOOLEAN, tsends |-> {TRUE}]

\* a prompt whose result is any sequence of parts of every kind, on one session
\* and the non-streaming path
PartKinds == {AnswerText, ReasoningText, ToolCompleted, ToolRunning, FileOut}

PartScope ==
    [slots |-> {1}, aslots |-> {1},
     sids |-> {"s1"}, ids |-> {"s1"},
     inits |-> {"started"},
     cwds |-> {<<"/tmp">>},
     prompts |-> {<<TextChunk(Hello)>>},
     catalogs |-> {<<Provider(<<"anthropic">>, <<<<"claude">>>>)>>},
     subs |-> {"throw"},
     parts |-> PartKinds,
     sends |-> BOOLEAN, tsends |-> {TRUE}]

\* prompts on two sessions at once, each with its subscription to the feed of
\* the backend, which carries the events of both sessions
FeedScope ==
    [slots |-> Reqs, aslots |-> {1},
     sids |-> SessionIds, ids |-> SessionIds,
     inits |-> {"started"},
     cwds |-> {<<"/tmp">>},
     prompts |-> {<<TextChunk(Hello)>>},
     catalogs |-> {<<Provider(<<"anthropic">>, <<<<"claude">>>>)>>},
     subs |-> {"stream"}, outs |-> {"ok"}, ends |-> {"closed"},
     parts |-> {},
     events |-> {SessionEvent(s, "text_delta", <<"answer">>) : s \in SessionIds},
     sends |-> {TRUE}, tsends |-> {TRUE}]

\* a catalog with a model key that contains a slash, and setSessionModel with
\* the model ids that newSession advertises for it
SlashCatalog ==
    <<Provider(<<"openrouter">>, <<<<"gpt">>, <<"meta", SLASH, "llama">>>>)>>

ModelScope ==
    [slots |-> {1}, aslots |-> {1},
     sids |-> SessionIds, ids |-> {"s1"},
     inits |-> {"started"},
     cwds |-> {<<"/tmp">>},
     models |-> {FlattenCatalog(SlashCatalog)[i] :
                    i \in 1..Len(FlattenCatalog(SlashCatalog))},
     prompts |-> {<<TextChunk(Hello)>>},
     catalogs |-> {SlashCatalog},
     subs |-> {"throw"},
     parts |-> {AnswerText},
     sends |-> BOOLEAN, tsends |-> {TRUE}]

\* two requests at a time on one session, cancel among them, every call and
\* every send succeeding, the updates of a prompt coming from the event feed
FlagScope ==
    [slots |-> Reqs, aslots |-> {1},
     sids |-> {"s1"}, ids |-> {"s1"},
     inits |-> {"started"},
     cwds |-> {<<"/tmp">>},
     models |-> {<<"openai", SLASH, "gpt">>},
     modes |-> {"plan"},
     prompts |-> {<<TextChunk(Hello)>>},
     catalogs |-> {<<Provider(<<"anthropic">>, <<<<"claude">>>>)>>},
     subs |-> {"stream"}, outs |-> {"ok"}, ends |-> {"closed"},
     parts |-> {},
     events |-> {StreamEvent("text_delta", <<"answer">>)},
     sends |-> {TRUE}, tsends |-> {TRUE}]

\* cancel, setSessionModel and setSessionMode on two sessions, two requests at
\* a time
SettingScope ==
    [slots |-> Reqs, aslots |-> {1},
     sids |-> SessionIds, ids |-> SessionIds,
     inits |-> {"started"},
     cwds |-> {<<"/tmp">>},
     models |-> {<<"openai", SLASH, "gpt">>},
     modes |-> {"plan"},
     catalogs |-> {<<Provider(<<"anthropic">>, <<<<"claude">>>>)>>},
     outs |-> {"ok", "throw"},
     sends |-> {TRUE}, tsends |-> {TRUE}]

\* ------------------------------------------------------------------ specification
\* initialize, newSession, loadSession and the return of a response
Lifecycle(I) ==
    \/ \E r \in Reqs : Return(r)
    \/ \E r \in I.aslots, o \in I.inits : initialize(r, o)
    \/ \E r \in I.slots, cwd \in I.cwds : newSession(r, cwd)
    \/ \E r \in I.slots, o \in Outcomes, id \in I.ids : newSessionCreated(r, o, id)
    \/ \E r \in I.slots, o \in Outcomes, c \in I.catalogs : newSessionProviders(r, o, c)
    \/ \E sid \in I.ids, ok1, ok2 \in I.tsends : timerFires(sid, ok1, ok2)
    \/ \E r \in I.slots, sid \in I.sids, cwd \in I.cwds : loadSession(r, sid, cwd)
    \/ \E r \in I.slots, o \in Outcomes : loadSessionFetched(r, o, I.ids)
    \/ \E r \in I.slots, o \in Outcomes, c \in I.catalogs : loadSessionProviders(r, o, c)
    \/ \E r \in I.slots, o \in Outcomes, h \in I.histories : loadSessionMessages(r, o, h)
    \/ \E r \in I.slots, ok \in I.sends : loadSessionReplay(r, ok)

\* authenticate and _session_list
Directory(I) ==
    \/ \E r \in I.aslots : authenticate(r)
    \/ \E r \in I.aslots : listSessions(r)
    \/ \E r \in I.aslots, o \in Outcomes : listSessionsReturned(r, o)

\* cancel, setSessionModel, setSessionMode
Settings(I) ==
    \/ \E r \in I.aslots, sid \in I.sids : cancel(r, sid)
    \/ \E r \in I.aslots, o \in Outcomes : cancelAborted(r, o)
    \/ \E r \in I.aslots, sid \in I.sids, m \in I.models : setSessionModel(r, sid, m)
    \/ \E r \in I.aslots, sid \in I.sids, m \in I.modes, ok \in I.sends :
          setSessionMode(r, sid, m, ok)

\* prompt on the streaming and the non-streaming path, and the event feed
Conversation(I) ==
    \/ \E r \in I.slots, sid \in I.sids, c \in I.prompts : prompt(r, sid, c)
    \/ \E r \in I.slots, o \in I.subs : promptSubscribed(r, o)
    \/ \E r \in I.slots, o \in Outcomes, ps \in SeqsUpTo(I.parts, MaxParts) :
          promptReturned(r, o, ps)
    \/ \E r \in I.slots, e \in I.events : streamEvent(r, e)
    \/ \E r \in I.slots, how \in {"closed", "error"} : streamEnds(r, how)
    \/ \E r \in I.slots, ok \in I.sends : promptDrain(r, ok)
    \/ \E r \in I.slots, ok \in I.sends : promptFinal(r, ok)

\* prompt with a slash command
Commands(I) ==
    \/ \E r \in I.slots, sid \in I.sids, c \in I.prompts, ok1, ok2 \in I.sends :
          promptSlash(r, sid, c, ok1, ok2)
    \/ \E r \in I.slots, o \in Outcomes, ps \in SeqsUpTo(I.parts, MaxParts),
          ok1, ok2 \in I.sends : promptSlashReturned(r, o, ps, ok1, ok2)
    \/ \E r \in I.slots, ok1, ok2 \in I.sends : promptSlashReview(r, ok1, ok2)

\* prompt, on its three paths
Prompting(I) == Conversation(I) \/ Commands(I)

Next == Lifecycle(BridgeScope) \/ Settings(BridgeScope) \/ Prompting(BridgeScope)

Spec == Init /\ [][Next]_vars

\* newSession and the prompt on its non-streaming path
ConvertNext ==
    LET I == ConvertScope IN
    \/ \E r \in Reqs : Return(r)
    \/ \E r \in I.aslots, o \in I.inits : initialize(r, o)
    \/ \E r \in I.slots, cwd \in I.cwds : newSession(r, cwd)
    \/ \E r \in I.slots, o \in Outcomes, id \in I.ids : newSessionCreated(r, o, id)
    \/ \E r \in I.slots, o \in Outcomes, c \in I.catalogs : newSessionProviders(r, o, c)
    \/ \E sid \in I.ids, ok1, ok2 \in I.tsends : timerFires(sid, ok1, ok2)
    \/ \E r \in I.slots, sid \in I.sids, c \in I.prompts : prompt(r, sid, c)
    \/ \E r \in I.slots, o \in I.subs : promptSubscribed(r, o)
    \/ \E r \in I.slots, o \in Outcomes, ps \in SeqsUpTo(I.parts, MaxParts) :
          promptReturned(r, o, ps)
    \/ \E r \in I.slots, ok \in I.sends : promptFinal(r, ok)

ConvertSpec == Init /\ [][ConvertNext]_vars

\* newSession and the prompt on its non-streaming path, for results of every kind
PartNext ==
    LET I == PartScope IN
    \/ \E r \in Reqs : Return(r)
    \/ \E r \in I.aslots, o \in I.inits : initialize(r, o)
    \/ \E r \in I.slots, cwd \in I.cwds : newSession(r, cwd)
    \/ \E r \in I.slots, o \in Outcomes, id \in I.ids : newSessionCreated(r, o, id)
    \/ \E r \in I.slots, o \in Outcomes, c \in I.catalogs : newSessionProviders(r, o, c)
    \/ \E sid \in I.ids, ok1, ok2 \in I.tsends : timerFires(sid, ok1, ok2)
    \/ \E r \in I.slots, sid \in I.sids, c \in I.prompts : prompt(r, sid, c)
    \/ \E r \in I.slots, o \in I.subs : promptSubscribed(r, o)
    \/ \E r \in I.slots, o \in Outcomes, ps \in SeqsUpTo(I.parts, MaxParts) :
          promptReturned(r, o, ps)
    \/ \E r \in I.slots, ok \in I.sends : promptFinal(r, ok)

PartSpec == Init /\ [][PartNext]_vars

\* newSession, and two prompts at a time on the streaming path whose calls succeed
FeedNext ==
    LET I == FeedScope IN
    \/ \E r \in Reqs : Return(r)
    \/ \E r \in I.aslots, o \in I.inits : initialize(r, o)
    \/ \E r \in I.aslots, cwd \in I.cwds : newSession(r, cwd)
    \/ \E r \in I.aslots, o \in Outcomes, id \in I.ids : newSessionCreated(r, o, id)
    \/ \E r \in I.aslots, o \in Outcomes, c \in I.catalogs : newSessionProviders(r, o, c)
    \/ \E sid \in I.ids, ok1, ok2 \in I.tsends : timerFires(sid, ok1, ok2)
    \/ \E r \in I.slots, sid \in I.sids, c \in I.prompts : prompt(r, sid, c)
    \/ \E r \in I.slots, o \in I.subs : promptSubscribed(r, o)
    \/ \E r \in I.slots, o \in I.outs, ps \in SeqsUpTo(I.parts, MaxParts) :
          promptReturned(r, o, ps)
    \/ \E r \in I.slots, e \in I.events : streamEvent(r, e)
    \/ \E r \in I.slots, how \in I.ends : streamEnds(r, how)
    \/ \E r \in I.slots, ok \in I.sends : promptDrain(r, ok)
    \/ \E r \in I.slots, ok \in I.sends : promptFinal(r, ok)

FeedSpec == Init /\ [][FeedNext]_vars

\* newSession, setSessionModel and the prompt on its non-streaming path
ModelNext ==
    LET I == ModelScope IN
    \/ \E r \in Reqs : Return(r)
    \/ \E r \in I.aslots, o \in I.inits : initialize(r, o)
    \/ \E r \in I.slots, cwd \in I.cwds : newSession(r, cwd)
    \/ \E r \in I.slots, o \in Outcomes, id \in I.ids : newSessionCreated(r, o, id)
    \/ \E r \in I.slots, o \in Outcomes, c \in I.catalogs : newSessionProviders(r, o, c)
    \/ \E sid \in I.ids, ok1, ok2 \in I.tsends : timerFires(sid, ok1, ok2)
    \/ \E r \in I.aslots, sid \in I.sids, m \in I.models : setSessionModel(r, sid, m)
    \/ \E r \in I.slots, sid \in I.sids, c \in I.prompts : prompt(r, sid, c)
    \/ \E r \in I.slots, o \in I.subs : promptSubscribed(r, o)
    \/ \E r \in I.slots, o \in Outcomes, ps \in SeqsUpTo(I.parts, MaxParts) :
          promptReturned(r, o, ps)
    \/ \E r \in I.slots, ok \in I.sends : promptFinal(r, ok)

ModelSpec == Init /\ [][ModelNext]_vars

\* newSession, then cancel, setSessionModel, setSessionMode and the prompt on
\* its streaming path, two requests at a time
FlagNext ==
    LET I == FlagScope IN
    \/ \E r \in Reqs : Return(r)
    \/ \E r \in I.aslots, o \in I.inits : initialize(r, o)
    \/ \E r \in I.aslots, cwd \in I.cwds : newSession(r, cwd)
    \/ \E r \in I.aslots, o \in I.outs, id \in I.ids : newSessionCreated(r, o, id)
    \/ \E r \in I.aslots, o \in I.outs, c \in I.catalogs : newSessionProviders(r, o, c)
    \/ \E sid \in I.ids, ok1, ok2 \in I.tsends : timerFires(sid, ok1, ok2)
    \/ \E r \in I.slots, sid \in I.sids : cancel(r, sid)
    \/ \E r \in I.slots, o \in I.outs : cancelAborted(r, o)
    \/ \E r \in I.slots, sid \in I.sids, m \in I.models : setSessionModel(r, sid, m)
    \/ \E r \in I.slots, sid \in I.sids, m \in I.modes, ok \in I.sends :
          setSessionMode(r, sid, m, ok)
    \/ \E r \in I.slots, sid \in I.sids, c \in I.prompts : prompt(r, sid, c)
    \/ \E r \in I.slots, o \in I.subs : promptSubscribed(r, o)
    \/ \E r \in I.slots, o \in I.outs, ps \in SeqsUpTo(I.parts, MaxParts) :
          promptReturned(r, o, ps)
    \/ \E r \in I.slots, e \in I.events : streamEvent(r, e)
    \/ \E r \in I.slots, how \in I.ends : streamEnds(r, how)
    \/ \E r \in I.slots, ok \in I.sends : promptDrain(r, ok)
    \/ \E r \in I.slots, ok \in I.sends : promptFinal(r, ok)

FlagSpec == Init /\ [][FlagNext]_vars

\* newSession, then cancel, setSessionModel and setSessionMode, two requests at
\* a time
SettingNext ==
    LET I == SettingScope IN
    \/ \E r \in Reqs : Return(r)
    \/ \E r \in I.aslots, o \in I.inits : initialize(r, o)
    \/ \E r \in I.aslots, cwd \in I.cwds : newSession(r, cwd)
    \/ \E r \in I.aslots, o \in I.outs, id \in I.ids : newSessionCreated(r, o, id)
    \/ \E r \in I.aslots, o \in I.outs, c \in I.catalogs : newSessionProviders(r, o, c)
    \/ \E sid \in I.ids, ok1, ok2 \in I.tsends : timerFires(sid, ok1, ok2)
    \/ \E r \in I.slots, sid \in I.sids : cancel(r, sid)
    \/ \E r \in I.slots, o \in I.outs : cancelAborted(r, o)
    \/ \E r \in I.slots, sid \in I.sids, m \in I.models : setSessionModel(r, sid, m)
    \/ \E r \in I.slots, sid \in I.sids, m \in I.modes, ok \in I.sends :
          setSessionMode(r, sid, m, ok)

SettingSpec == Init /\ [][SettingNext]_vars

\* newSession and the prompt on its streaming path
EventNext ==
    LET I == EventScope IN
    \/ \E r \in Reqs : Return(r)
    \/ \E r \in I.aslots, o \in I.inits : initialize(r, o)
    \/ \E r \in I.slots, cwd \in I.cwds : newSession(r, cwd)
    \/ \E r \in I.slots, o \in Outcomes, id \in I.ids : newSessionCreated(r, o, id)
    \/ \E r \in I.slots, o \in Outcomes, c \in I.catalogs : newSessionProviders(r, o, c)
    \/ \E sid \in I.ids, ok1, ok2 \in I.tsends : timerFires(sid, ok1, ok2)
    \/ Conversation(I)

EventSpec == Init /\ [][EventNext]_vars

SessionNext ==
    Lifecycle(SessionScope) \/ Settings(SessionScope) \/ Directory(SessionScope)

SessionSpec == Init /\ [][SessionNext]_vars

RaceNext == Lifecycle(RaceScope) \/ Settings(RaceScope) \/ Conversation(RaceScope)

RaceSpec == Init /\ [][RaceNext]_vars

PromptNext == Lifecycle(PromptScope) \/ Prompting(PromptScope)

PromptSpec == Init /\ [][PromptNext]_vars


\* ------------------------------------------------------------------ properties
\* C1: a session's cancelled flag only ever goes from false to true: no step of
\* the bridge (newSession, loadSession, prompt, cancel, setSessionModel,
\* setSessionMode) takes a registered session whose flag is set to a state where
\* the session is gone or its flag is clear.
C1_CancelledIsMonotonic ==
    [][\A s \in DOMAIN sessions :
          sessions[s].cancelled =>
             s \in DOMAIN sessions' /\ sessions'[s].cancelled]_vars


\* The steps the bridge takes without further input: the return of each backend
\* call a prompt awaits, and each turn of its loops.
PromptProgress ==
    \/ \E r \in PromptScope.slots, o \in PromptScope.subs : promptSubscribed(r, o)
    \/ \E r \in PromptScope.slots, o \in Outcomes,
          ps \in SeqsUpTo(PromptScope.parts, MaxParts) : promptReturned(r, o, ps)
    \/ \E r \in PromptScope.slots, ok \in PromptScope.sends : promptDrain(r, ok)
    \/ \E r \in PromptScope.slots, ok \in PromptScope.sends : promptFinal(r, ok)
    \/ \E r \in PromptScope.slots, o \in Outcomes,
          ps \in SeqsUpTo(PromptScope.parts, MaxParts),
          ok1, ok2 \in PromptScope.sends : promptSlashReturned(r, o, ps, ok1, ok2)
    \/ \E r \in PromptScope.slots, ok1, ok2 \in PromptScope.sends :
          promptSlashReview(r, ok1, ok2)

\* PromptSpec where every backend call returns and the event loop runs every
\* continuation that is ready. The event feed is the backend's: nothing makes it
\* deliver another event or end.
LivePromptSpec == PromptSpec /\ WF_vars(PromptProgress)

\* C2: every prompt request eventually gets a terminal response (a stop reason
\* or an error), provided each backend call returns: a slot that has taken a
\* prompt reaches the end of its handler.
C2_PromptTerminates ==
    \A r \in Reqs : (req[r].op = "prompt") ~> (req[r].pc = "done")


\* the operations that take the id of an existing session and look it up first
LookupOps == {"prompt", "cancel", "setSessionModel", "setSessionMode"}

\* C3: prompt, cancel, setSessionModel and setSessionMode invoked with a session
\* id that is not registered fail at once with "Session not found": the registry
\* is left as it was, no backend call is issued and no notification is sent.
C3_UnknownSessionFails ==
    [][\A r \in Reqs :
          (/\ req[r].pc = "idle"
           /\ req'[r].op \in LookupOps
           /\ req'[r].sid \notin DOMAIN sessions)
          => /\ req'[r].pc = "done"
             /\ req'[r].resp = "Session not found"
             /\ req'[r].calls = <<>>
             /\ req'[r].sent = <<>>
             /\ sessions' = sessions]_vars

\* cancel was refused for an id that is not registered while another session is
C3_UnknownSessionRefused ==
    \E r \in Reqs :
       /\ req[r].pc = "done"
       /\ req[r].op = "cancel"
       /\ req[r].sid \notin DOMAIN sessions
       /\ req[r].resp = "Session not found"
       /\ DOMAIN sessions # {}
       /\ opencodeClient


\* a prompt on the streaming path, in slot r
Streaming(r) == req[r].op = "prompt" /\ req[r].path = "streaming"

\* the entries of log that come from src, in the order they were sent
RECURSIVE From(_, _)
From(log, src) ==
    IF log = <<>> THEN <<>>
    ELSE (IF log[1].src = src THEN <<log[1]>> ELSE <<>>) \o From(Tail(log), src)

\* the indices of result whose part translates to an update
Emitting(sid, result) ==
    {n \in 1..Len(result) : TranslatePart(sid, result[n]) # <<>>}

\* C4: on the streaming path the updates derived from stream events are
\* delivered in the order the events arrived, all of them before the updates of
\* the final pass, which are delivered in the order of the parts in the result;
\* the final pass leaves no part out because its content was streamed already.
C4_StreamThenFinalInOrder ==
    \A r \in Reqs :
       Streaming(r) =>
          LET log == req[r].sent
              sid == req[r].sid
              streamed == From(log, "stream")
              final == From(log, "final")
          IN
          /\ log = streamed \o final
          /\ \A i \in 1..Len(streamed) :
                /\ streamed[i].n \in 1..stream[r].consumed
                /\ <<streamed[i].u>> = TranslateEvent(sid, stream[r].arrived[streamed[i].n])
                /\ \A j \in 1..Len(streamed) : i < j => streamed[i].n < streamed[j].n
          /\ \A i \in 1..Len(final) :
                /\ final[i].n \in Emitting(sid, req[r].result)
                /\ <<final[i].u>> = TranslatePart(sid, req[r].result[final[i].n])
                /\ \A j \in 1..Len(final) : i < j => final[i].n < final[j].n
          /\ (req[r].pc = "done" /\ req[r].resp = "end_turn")
                => {final[i].n : i \in 1..Len(final)} = Emitting(sid, req[r].result)

\* a streaming prompt ended with end_turn after two stream updates of different
\* events and two final updates of different parts, one of which repeats an
\* update that was streamed
C4_StreamedThenRepeated ==
    \E r \in Reqs :
       /\ Streaming(r)
       /\ req[r].pc = "done"
       /\ req[r].resp = "end_turn"
       /\ LET streamed == From(req[r].sent, "stream")
              final == From(req[r].sent, "final")
          IN /\ Len(streamed) = 2 /\ streamed[1].u # streamed[2].u
             /\ Len(final) = 2 /\ final[1].u # final[2].u
             /\ \E i, j \in 1..2 : streamed[i].u = final[j].u


\* C5: the event stream is drained concurrently with the backend prompt call:
\* an event that has arrived on the subscription while the prompt call is in
\* flight can be forwarded at once, without waiting for the call to return.
C5_DrainedWhileInFlight ==
    \A r \in Reqs :
       (/\ Streaming(r)
        /\ req[r].pc = "prompt"
        /\ stream[r].consumed < Len(stream[r].arrived))
       => ENABLED (\E ok \in BOOLEAN : promptDrain(r, ok))


\* the prompt in slot r asked for the event subscription and was refused
SubscribeFailed(r) ==
    /\ req[r].op = "prompt"
    /\ Len(req[r].answers) >= 1
    /\ req[r].calls[1].name = "event.subscribe"
    /\ req[r].answers[1] = "throw"

\* the prompt in slot r has issued session.prompt as its second backend call
\* and no other after it
PromptCallIssued(r) ==
    /\ Len(req[r].calls) = 2
    /\ req[r].calls[2].name = "session.prompt"
    /\ req[r].calls[2].sid = req[r].sid
    /\ req[r].calls[2].parts = promptToOpencode(req[r].prompt)

\* C6 as the spec states it: if opening the event subscription fails, the prompt
\* takes the non-streaming path, issues the backend prompt call, emits updates
\* only for the parts of the final result, and returns end_turn.
C6_FallbackReturnsEndTurn ==
    \A r \in Reqs :
       (SubscribeFailed(r) /\ req[r].pc = "done")
       => /\ PromptCallIssued(r)
          /\ \A i \in 1..Len(req[r].sent) : req[r].sent[i].src = "final"
          /\ req[r].resp = "end_turn"

\* C6, amended: if opening the event subscription fails, the prompt does not
\* fail on that account: it takes the non-streaming path with no subscription,
\* issues the backend prompt call and emits updates only for the parts of the
\* final result. It returns end_turn only if that call returned a result, and
\* then every part that translates to an update has been delivered; it fails if
\* the call returned an error or no result or rejected, and otherwise only by a
\* rejected notification.
C6_FallbackIsNonStreaming ==
    \A r \in Reqs :
       SubscribeFailed(r)
       => /\ req[r].path = "nonstreaming"
          /\ stream[r] = NoStream
          /\ PromptCallIssued(r)
          /\ \A i \in 1..Len(req[r].sent) : req[r].sent[i].src = "final"
          /\ req[r].pc = "done"
             => /\ Len(req[r].answers) = 2
                /\ req[r].answers[2] = "ok"
                   => req[r].resp \in {"end_turn", "send rejected"}
                /\ req[r].answers[2] # "ok"
                   => req[r].resp \in {"Prompt failed", "No result from prompt",
                                       "rejected"}
                /\ req[r].resp = "end_turn"
                   => {req[r].sent[i].n : i \in 1..Len(req[r].sent)}
                         = Emitting(req[r].sid, req[r].result)

\* a prompt whose subscription was refused ended with end_turn after delivering
\* the updates of a result of two parts
C6_FallbackDelivered ==
    \E r \in Reqs :
       /\ SubscribeFailed(r)
       /\ req[r].pc = "done"
       /\ req[r].resp = "end_turn"
       /\ Len(req[r].result) = 2
       /\ Len(req[r].sent) = 2


\* the prompt in slot r is not a slash command: it went to event.subscribe
Conversing(r) ==
    /\ req[r].op = "prompt"
    /\ req[r].calls # <<>>
    /\ req[r].calls[1].name = "event.subscribe"

\* the answer of the session.prompt call of slot r, "none" while there is none
PromptAnswer(r) ==
    IF Len(req[r].answers) >= 2 THEN req[r].answers[2] ELSE "none"

\* C7: on either path a prompt returns end_turn only if the backend prompt call
\* succeeded with a result; if the call returns an error or no result (or
\* rejects), the prompt fails and no update of a final result is emitted.
C7_EndTurnOnlyWithResult ==
    \A r \in Reqs :
       Conversing(r)
       => /\ (req[r].pc = "done" /\ req[r].resp = "end_turn") => PromptAnswer(r) = "ok"
          /\ From(req[r].sent, "final") # <<>> => PromptAnswer(r) = "ok"
          /\ PromptAnswer(r) \in {"error", "nodata", "throw"}
             => /\ req[r].pc = "done"
                /\ req[r].resp \in {"Prompt failed", "No result from prompt", "rejected"}
                /\ req[r].sent = <<>>

\* a prompt on the streaming path failed for want of a result, with events
\* waiting on its subscription
C7_FailedWithoutResult ==
    \E r \in Reqs :
       /\ Conversing(r)
       /\ req[r].path = "streaming"
       /\ PromptAnswer(r) = "nodata"
       /\ req[r].pc = "done"
       /\ req[r].resp = "No result from prompt"
       /\ Len(stream[r].arrived) > 0


\* the first chunk of type text in content begins with "/"
FirstTextBeginsWithSlash(content) ==
    \E i \in 1..Len(content) :
       /\ content[i].type = "text"
       /\ \A j \in 1..(i - 1) : content[j].type # "text"
       /\ Len(content[i].text) > 0
       /\ content[i].text[1] = "/"

\* C8: when the first text chunk of a prompt begins with "/", the prompt is
\* handled by the slash-command handling alone: no event subscription is opened,
\* no backend prompt call is made, the content is not converted to backend
\* parts, and every notification is one of the command's.
C8_SlashBypassesPrompt ==
    \A r \in Reqs :
       (req[r].op = "prompt" /\ FirstTextBeginsWithSlash(req[r].prompt))
       => /\ \A i \in 1..Len(req[r].calls) :
                req[r].calls[i].name \in {"session.init", "session.summarize",
                                          "session.command"}
          /\ req[r].parts = <<>>
          /\ req[r].path = "none"
          /\ stream[r] = NoStream
          /\ \A i \in 1..Len(req[r].sent) :
                req[r].sent[i].src \in {"progress", "unknown", "result", "catch",
                                        "review"}

\* a prompt of an image followed by the text "/init" ran the init command to
\* its end
C8_SlashAfterImage ==
    \E r \in Reqs :
       /\ req[r].op = "prompt"
       /\ req[r].prompt = <<ImageChunk(Png), TextChunk(CmdInit)>>
       /\ req[r].pc = "done"
       /\ req[r].resp = "end_turn"
       /\ Len(req[r].calls) = 1
       /\ req[r].calls[1].name = "session.init"
       /\ Len(req[r].sent) = 2


\* the prompt in slot r is the command /init or /compact
InitOrCompact(r) ==
    /\ req[r].op = "prompt"
    /\ FirstTextBeginsWithSlash(req[r].prompt)
    /\ CommandName(TextContent(req[r].prompt)) \in {INIT, COMPACT}

\* the success-or-failure notifications slot r has delivered: the one of the
\* try block and the one of the catch block
Outcome(r) == From(req[r].sent, "result") \o From(req[r].sent, "catch")

\* the progress notification is delivered before the backend call is issued,
\* and nothing else is delivered until the call has returned
ProgressBeforeCall(r) ==
    /\ req[r].calls # <<>>
       => /\ req[r].sent # <<>>
          /\ req[r].sent[1].src = "progress"
          /\ req[r].sent[1].u.text = ProgressText(TextContent(req[r].prompt))
    /\ req[r].pc = "command" => Len(req[r].sent) = 1

C10_SlashAlwaysEndTurn ==
    \A r \in Reqs :
       (/\ req[r].op = "prompt"
        /\ FirstTextBeginsWithSlash(req[r].prompt)
        /\ req[r].pc = "done"
        /\ req[r].resp \notin {"Session not found", "opencode client not initialized"})
       => req[r].resp = "end_turn"


\* the prompt in slot r is a slash command that is none of init, compact, review
UnknownCommand(r) ==
    /\ req[r].op = "prompt"
    /\ FirstTextBeginsWithSlash(req[r].prompt)
    /\ CommandName(TextContent(req[r].prompt)) \notin {<<"init">>, <<"compact">>, <<"review">>}

\* the text that names the unknown command of slot r and lists the valid ones
UnknownNotice(r) ==
    <<"Unknown command: /">> \o CommandName(TextContent(req[r].prompt))
       \o <<". Available commands: /init, /compact, /review">>

\* the prompt of slot r is over and was not refused by the checks of prompt
Handled(r) ==
    /\ req[r].pc = "done"
    /\ req[r].resp \notin {"Session not found", "opencode client not initialized"}

ValidModes == {"default", "acceptEdits", "plan"}

\* slot r takes a setSessionMode request for a registered session in this step
TakesSetMode(r) ==
    /\ req[r].pc = "idle"
    /\ req'[r].op = "setSessionMode"
    /\ req'[r].sid \in DOMAIN sessions

\* C12: setSessionMode on a registered session with a mode outside
\* {default, acceptEdits, plan} fails with the invalid-mode error, leaves
\* currentMode and every other field of the registry unchanged, and emits no
\* notification.
C12_InvalidModeRefused ==
    [][\A r \in Reqs :
          (TakesSetMode(r) /\ req'[r].arg \notin ValidModes)
          => /\ req'[r].pc = "done"
             /\ req'[r].resp = "Invalid mode"
             /\ req'[r].sent = <<>>
             /\ sessions' = sessions
             /\ oob' = oob]_vars

\* the mode yolo was refused for a session that is in mode plan
C12_InvalidModeOnPlan ==
    \E r \in Reqs :
       /\ req[r].pc = "done"
       /\ req[r].op = "setSessionMode"
       /\ req[r].arg = "yolo"
       /\ req[r].resp = "Invalid mode"
       /\ req[r].sid \in DOMAIN sessions
       /\ sessions[req[r].sid].currentMode = "plan"

\* C13: setSessionMode on a registered session with a valid mode sets the
\* session's currentMode to that mode, changes nothing else in the registry,
\* and sends exactly one current_mode_update notification carrying that mode
\* (the request fails if that send is rejected); and in every reachable state
\* the currentMode of every session is one of default, acceptEdits, plan.
C13_ValidModeStored ==
    /\ [](\A s \in DOMAIN sessions : sessions[s].currentMode \in ValidModes)
    /\ [][\A r \in Reqs :
            (TakesSetMode(r) /\ req'[r].arg \in ValidModes)
            => LET sid == req'[r].sid
                   mode == req'[r].arg
               IN
               /\ req'[r].pc = "done"
               /\ sessions' = [sessions EXCEPT ![sid].currentMode = mode]
               /\ oob' = oob
               /\ \/ /\ req'[r].resp = "ok"
                     /\ Len(req'[r].sent) = 1
                     /\ req'[r].sent[1].u.sessionId = sid
                     /\ req'[r].sent[1].u.sessionUpdate = "current_mode_update"
                     /\ req'[r].sent[1].u.text = mode
                  \/ /\ req'[r].resp = "send rejected"
                     /\ req'[r].sent = <<>>]_vars

\* a session left mode plan for acceptEdits and the notification of it went out
C13_ModeChanged ==
    \E r \in Reqs :
       /\ req[r].pc = "done"
       /\ req[r].op = "setSessionMode"
       /\ req[r].arg = "acceptEdits"
       /\ req[r].resp = "ok"
       /\ Len(req[r].sent) = 1
       /\ sessions[req[r].sid].currentMode = "acceptEdits"
       /\ sessions[req[r].sid].cancelled


\* slot r runs cancel for a session that its lookup found in the registry
Cancelling(r) == req[r].op = "cancel" /\ req[r].found # <<>>

\* C14: cancel is idempotent on the session state: cancelling a registered
\* session that is cancelled already leaves the registry as the first cancel
\* left it, and completes without error whatever the abort call does.
C14_CancelAgainChangesNothing ==
    [][\A r \in Reqs :
          /\ (/\ req[r].pc = "idle"
              /\ req'[r].op = "cancel"
              /\ req'[r].found # <<>>
              /\ req'[r].found[1].cancelled)
             => /\ sessions' = sessions
                /\ sessions'[req'[r].sid].cancelled
                /\ \/ req'[r].pc = "abort"
                   \/ req'[r].pc = "done" /\ req'[r].resp = "ok"
          /\ (/\ Cancelling(r)
              /\ req[r].found[1].cancelled
              /\ req[r].pc = "abort"
              /\ req'[r].pc # "abort")
             => /\ sessions' = sessions
                /\ req'[r].pc = "done"
                /\ req'[r].resp = "ok"]_vars

\* a cancel of a session that was cancelled already has called session.abort
\* and completed
C14_CancelledTwice ==
    \E r \in Reqs :
       /\ Cancelling(r)
       /\ req[r].found[1].cancelled
       /\ req[r].pc = "done"
       /\ req[r].resp = "ok"
       /\ Len(req[r].answers) = 1
       /\ sessions[req[r].sid].cancelled

\* C15: cancel on a registered session sets cancelled = true before the backend
\* abort and whatever its outcome: the flag is set while the abort call is in
\* flight, and when the call fails (an error, or a rejection) cancel still
\* completes without error and the flag stays set.
C15_CancelledWhateverAbort ==
    \A r \in Reqs :
       Cancelling(r)
       => /\ req[r].pc \in {"abort", "done"}
          /\ sessions[req[r].sid].cancelled
          /\ req[r].pc = "abort"
             => /\ req[r].calls = <<SimpleCall("session.abort", req[r].sid)>>
                /\ req[r].answers = <<>>
          /\ req[r].pc = "done" => req[r].resp = "ok"

\* the abort call was rejected for a session that was not cancelled before, and
\* cancel has completed
C15_AbortRejected ==
    \E r \in Reqs :
       /\ Cancelling(r)
       /\ ~req[r].found[1].cancelled
       /\ req[r].pc = "done"
       /\ req[r].answers = <<"throw">>
       /\ req[r].resp = "ok"
       /\ sessions[req[r].sid].cancelled


\* C16: cancellation is cooperative. The step of cancel that sets the flag
\* leaves every other handler in flight and every subscription as they are; a
\* prompt is never ended on account of the flag, so a prompt whose backend call
\* returned a result ends, on a cancelled session too, with end_turn (or with a
\* rejected notification); and there are executions in which a prompt delivers
\* updates after the flag was set and returns end_turn.
C16_CancelIsCooperative ==
    /\ [](\A r \in Reqs :
            (Conversing(r) /\ req[r].pc = "done" /\ PromptAnswer(r) = "ok")
            => req[r].resp \in {"end_turn", "send rejected"})
    /\ [][\A r \in Reqs :
            (req[r].pc = "idle" /\ req'[r].op = "cancel")
            => /\ stream' = stream
               /\ \A p \in Reqs \ {r} : req'[p] = req[p]]_vars

\* a prompt that found its session not cancelled has returned end_turn, and all
\* it delivered, from the stream and from the result, it delivered after the
\* flag was set
C16_UpdatesAfterCancel ==
    \E r \in Reqs :
       /\ Conversing(r)
       /\ req[r].found # <<>>
       /\ ~req[r].found[1].cancelled
       /\ req[r].pc = "done"
       /\ req[r].resp = "end_turn"
       /\ From(req[r].sent, "stream") # <<>>
       /\ From(req[r].sent, "final") # <<>>
       /\ \A i \in 1..Len(req[r].sent) : req[r].sent[i].late


\* the setTimeout callbacks that are due
TimerProgress ==
    \E sid \in PromptScope.ids, ok1, ok2 \in PromptScope.tsends : timerFires(sid, ok1, ok2)

\* PromptSpec where the event loop runs every timer callback that is due
LiveTimerSpec == PromptSpec /\ WF_vars(TimerProgress)

\* the two notifications newSession schedules for session s, in their order
Advertised(s) ==
    <<Update(s, "available_commands_update", Undefined, "none"),
      Update(s, "current_mode_update", "default", "none")>>

\* newSession has returned its response for session s in some slot
Created(s) ==
    \E r \in Reqs :
       /\ req[r].op = "newSession"
       /\ req[r].pc = "done"
       /\ req[r].resp = "ok"
       /\ req[r].sid = s

\* C17: every successful newSession is eventually followed by two notifications
\* for the new session id, an available_commands_update and then a
\* current_mode_update with mode default, on every successful return path.
C17_NewSessionAdvertised ==
    \A s \in SessionIds : Created(s) ~> (oob[s] = Advertised(s))


\* newSession is in flight for session s: it has not produced its response
Creating(s) ==
    \E r \in Reqs :
       /\ req[r].op = "newSession"
       /\ req[r].sid = s
       /\ req[r].pc \notin {"idle", "done"}

\* C18: the two out-of-band notifications of newSession are emitted only after
\* the newSession response has been produced: while newSession is in flight for
\* a session its callback is not scheduled and has delivered nothing. The
\* callback, whether its notifications are delivered or rejected, leaves every
\* response and the registry as they are.
C18_AdvertisedAfterResponse ==
    /\ [](\A s \in SessionIds : Creating(s) => (s \notin timers /\ oob[s] = <<>>))
    /\ [][\A s \in SessionIds :
            (oob'[s] # oob[s] \/ (s \in timers /\ s \notin timers'))
            => /\ ~Creating(s)
               /\ s \in DOMAIN sessions
               /\ req' = req
               /\ sessions' = sessions
               /\ opencodeClient' = opencodeClient]_vars

\* the callback has run for a new session and its first notification was
\* rejected; the response of newSession and the session's entry are in place
C18_DeliveryFailed ==
    \E s \in SessionIds :
       /\ Created(s)
       /\ s \notin timers
       /\ oob[s] = <<Update(s, "current_mode_update", "default", "none")>>
       /\ s \in DOMAIN sessions
       /\ sessions[s].currentModel # Undefined


\* newSession has answered, its backend session was created and the catalog
\* fetch failed: it returned an error or no providers, or it was rejected
CatalogFailed(r) ==
    /\ req[r].op = "newSession"
    /\ req[r].pc = "done"
    /\ Len(req[r].answers) = 2
    /\ req[r].answers[1] = "ok"
    /\ req[r].answers[2] # "ok"

\* C19: if the provider-catalog fetch fails during newSession after the backend
\* session was created, newSession still succeeds: the session is registered
\* and the response reports exactly one available model, `default`, which is
\* also the current model.
C19_CatalogFailureDegrades ==
    \A r \in Reqs :
       CatalogFailed(r)
       => /\ req[r].resp = "ok"
          /\ req[r].sid \in DOMAIN sessions
          /\ req[r].out = [availableModels |-> <<DefaultModel>>,
                           currentModelId |-> DefaultModel]


\* newSession has answered and its catalog fetch succeeded
CatalogFetched(r) ==
    /\ req[r].op = "newSession"
    /\ req[r].pc = "done"
    /\ Len(req[r].answers) = 2
    /\ req[r].answers[2] = "ok"

\* the (provider, model) pairs of a catalog, by position
ModelPairs(c) ==
    UNION {{<<i, j>> : j \in 1..(IF c[i].models = Undefined THEN 0
                                  ELSE Len(c[i].models))} : i \in 1..Len(c)}

\* the place of a pair in catalog order
PlaceOf(p, c) ==
    1 + Cardinality({q \in ModelPairs(c) :
                       q[1] < p[1] \/ (q[1] = p[1] /\ q[2] < p[2])})

\* list l has one entry `<provider>/<model>` per pair of catalog c, in order
ListsCatalog(l, c) ==
    /\ Len(l) = Cardinality(ModelPairs(c))
    /\ \A p \in ModelPairs(c) :
          l[PlaceOf(p, c)] = c[p[1]].id \o <<SLASH>> \o c[p[1]].models[p[2]]

\* the first entry of the list, or `default` when the catalog yields no model
FirstListed(l, c) == IF ModelPairs(c) = {} THEN DefaultModel ELSE l[1]

\* response and registry agree on the current model of the new session
CurrentIs(r, m) ==
    /\ req[r].out.currentModelId = m
    /\ req[r].sid \in DOMAIN sessions
    /\ sessions[req[r].sid].currentModel = m

\* C20 as stated: when the catalog fetch succeeds, newSession returns one
\* available model per (provider, model) pair of the catalog, `<provider>/<model>`,
\* in catalog order, and the response's currentModelId and the session's
\* currentModel are the first entry of that list, or `default` when the catalog
\* yields no model.
C20_CatalogListed ==
    \A r \in Reqs :
       CatalogFetched(r)
       => /\ req[r].resp = "ok"
          /\ ListsCatalog(req[r].out.availableModels, req[r].data)
          /\ CurrentIs(r, FirstListed(req[r].out.availableModels, req[r].data))

\* C20, amended: as above, except that a catalog that yields no model is
\* answered with the single synthetic model `default` in the list
C20_CatalogListedOrDefault ==
    \A r \in Reqs :
       CatalogFetched(r)
       => /\ req[r].resp = "ok"
          /\ IF ModelPairs(req[r].data) = {}
             THEN req[r].out.availableModels = <<DefaultModel>>
             ELSE ListsCatalog(req[r].out.availableModels, req[r].data)
          /\ CurrentIs(r, FirstListed(req[r].out.availableModels, req[r].data))

\* a catalog of two providers and three models was flattened
C20_TwoProvidersListed ==
    \E r \in Reqs :
       /\ CatalogFetched(r)
       /\ Len(req[r].data) = 2
       /\ Cardinality(ModelPairs(req[r].data)) = 3
       /\ req[r].out.availableModels[3] = <<"openai", SLASH, "gpt">>
       /\ req[r].out.currentModelId = <<"anthropic", SLASH, "claude">>


\* request r is a newSession or loadSession without a working directory
WithoutCwd(q) ==
    /\ q.op \in {"newSession", "loadSession"}
    /\ q.arg \in {EmptyString, Undefined}

\* C21: newSession and loadSession called with a missing or empty working
\* directory fail immediately: the request is answered with an error in the
\* step that takes it, no backend call (session.create, session.get) is issued
\* and the registry is left as it was.
C21_NoCwdFailsFast ==
    /\ [](\A r \in Reqs :
            WithoutCwd(req[r])
            => /\ req[r].pc = "done"
               /\ req[r].resp \in {"cwd is required", "opencode client not initialized"}
               /\ req[r].calls = <<>>
               /\ req[r].sent = <<>>)
    /\ [][\A r \in Reqs :
            (req[r].pc = "idle" /\ WithoutCwd(req'[r])) => sessions' = sessions]_vars

\* an initialized bridge has refused a newSession with an empty working directory
C21_EmptyCwdRefused ==
    \E r \in Reqs :
       /\ opencodeClient
       /\ req[r].op = "newSession"
       /\ req[r].arg = EmptyString
       /\ req[r].resp = "cwd is required"
       /\ req[r].calls = <<>>


\* loadSession has answered with a success
Loaded(r) ==
    /\ req[r].op = "loadSession"
    /\ req[r].pc = "done"
    /\ req[r].resp = "ok"

\* a part of the history that is replayed, and the kind of update it is replayed as
Replayable(part) ==
    \/ part.type = "text"
    \/ part.type = "reasoning" /\ part.role = "assistant"

ReplayKind(part) ==
    IF part.type = "reasoning" THEN "agent_thought_chunk"
    ELSE IF part.role = "user" THEN "user_message_chunk"
    ELSE "agent_message_chunk"

\* log is the replay of history h for session s: one update per replayable part,
\* of that part's kind and text, in the order of the history
ReplayOf(log, h, s) ==
    /\ Len(log) = Cardinality({i \in 1..Len(h) : Replayable(h[i])})
    /\ \A k \in 1..Len(log) :
          /\ log[k].src = "replay"
          /\ log[k].n \in 1..Len(h)
          /\ Replayable(h[log[k].n])
          /\ log[k].u = Update(s, ReplayKind(h[log[k].n]), h[log[k].n].text, "none")
          /\ k > 1 => log[k - 1].n < log[k].n

\* C22: every successful loadSession has fetched the backend history and has
\* replayed it in order before returning: one session update per replayable
\* part, user text as user_message_chunk, assistant text as agent_message_chunk,
\* assistant reasoning as agent_thought_chunk.
C22_LoadReplaysHistory ==
    \A r \in Reqs :
       Loaded(r)
       => /\ \E i \in 1..Len(req[r].calls) : req[r].calls[i].name = "session.messages"
          /\ ReplayOf(req[r].sent, req[r].result, req[r].sid)


\* loadSession has answered, the backend session was fetched and the catalog
\* fetch failed: it returned an error or no providers, or it was rejected
LoadCatalogFailed(r) ==
    /\ req[r].op = "loadSession"
    /\ req[r].pc = "done"
    /\ Len(req[r].answers) = 2
    /\ req[r].answers[1] = "ok"
    /\ req[r].answers[2] # "ok"

\* C23: if the provider-catalog fetch fails during loadSession, loadSession
\* still succeeds and its response reports the single synthetic model `default`
\* as the available and the current model, as newSession does.
C23_LoadCatalogFailureDegrades ==
    \A r \in Reqs :
       LoadCatalogFailed(r)
       => /\ req[r].resp = "ok"
          /\ req[r].out = [availableModels |-> <<DefaultModel>>,
                           currentModelId |-> DefaultModel]


\* loadSession has answered and the backend session could not be fetched
FetchFailed(q) ==
    /\ q.op = "loadSession"
    /\ q.pc = "done"
    /\ Len(q.answers) = 1
    /\ q.answers[1] # "ok"

\* C24: if the backend session cannot be fetched, loadSession fails with an
\* error, issues no further backend call and emits no session update, and the
\* step in which it fails leaves the registry as it was: no session is
\* registered for the id and an existing entry is unchanged.
C24_FetchFailureLeavesRegistry ==
    /\ [](\A r \in Reqs :
            FetchFailed(req[r])
            => /\ req[r].resp = "Failed to load opencode session"
               /\ Len(req[r].calls) = 1
               /\ req[r].sent = <<>>)
    /\ [][\A r \in Reqs :
            (req[r].pc = "get" /\ FetchFailed(req'[r]))
            => (sessions' = sessions /\ oob' = oob /\ timers' = timers)]_vars

\* loadSession failed to fetch a session whose id is registered and cancelled
C24_FetchFailedForRegistered ==
    \E r \in Reqs :
       /\ FetchFailed(req[r])
       /\ req[r].sid \in DOMAIN sessions
       /\ sessions[req[r].sid].cancelled
       /\ sessions[req[r].sid].currentModel # Undefined


\* the step is taken by a request whose operation is one of ops
StepOf(ops) == \E r \in Reqs : req'[r] # req[r] /\ req'[r].op \in ops

\* the step completes the creation of session s: the handler that has just
\* registered it stores its first model
Completes(s) ==
    \E r \in Reqs :
       /\ req[r].op \in {"newSession", "loadSession"}
       /\ req[r].pc \in {"providers", "lproviders"}
       /\ req[r].sid = s
       /\ req'[r] # req[r]
       /\ sessions[s].currentModel = Undefined
       /\ sessions'[s].currentMode = sessions[s].currentMode

\* C25: once a session is registered, its currentModel and currentMode change
\* only in a step of setSessionModel or setSessionMode (or in the step that
\* completes its creation); prompt, cancel, authenticate, listSessions, and a
\* newSession or loadSession for an id that is already registered leave them
\* as they are.
C25_ModelAndModeOnlySet ==
    [][\A s \in DOMAIN sessions :
         (\/ s \notin DOMAIN sessions'
          \/ sessions'[s].currentModel # sessions[s].currentModel
          \/ sessions'[s].currentMode # sessions[s].currentMode)
         => (StepOf({"setSessionModel", "setSessionMode"}) \/ Completes(s))]_vars


\* C26: a registered session is never removed: no step takes an id out of the
\* registry, and a prompt, cancel, setSessionModel or setSessionMode that names
\* a registered id is not refused with "Session not found", whatever operations
\* came before, cancel and failed operations included.
C26_RegisteredForGood ==
    [][/\ DOMAIN sessions \subseteq DOMAIN sessions'
       /\ \A r \in Reqs :
             (/\ req[r].pc = "idle"
              /\ req'[r].op \in LookupOps
              /\ req'[r].sid \in DOMAIN sessions)
             => req'[r].resp # "Session not found"]_vars

\* a prompt has passed the lookup of a session that was cancelled before
C26_PromptAfterCancel ==
    \E r \in Reqs :
       /\ req[r].op = "prompt"
       /\ req[r].sid \in DOMAIN sessions
       /\ sessions[req[r].sid].cancelled
       /\ Len(req[r].calls) > 0
       /\ req[r].resp # "Session not found"


\* the operations that need the backend client before anything else
ClientOps == {"newSession", "loadSession", "listSessions"}

\* C27: initialize leaves the gateway initialized when the local backend starts
\* or when the start fails with a bind conflict; on any other failure it fails
\* and leaves the gateway as it was. Nothing but initialize sets the gateway up,
\* and while it is uninitialized every newSession, loadSession and listSessions
\* fails with the not-initialized error without a backend call.
C27_InitializeGatesBackend ==
    /\ [](\A r \in Reqs :
            (~opencodeClient /\ req[r].op \in ClientOps)
            => /\ req[r].pc = "done"
               /\ req[r].resp = "opencode client not initialized"
               /\ req[r].calls = <<>>)
    /\ [][/\ \A r \in Reqs :
               (req[r].pc = "idle" /\ req'[r].op = "initialize")
               => IF req'[r].answers[1] \in {"started", "EADDRINUSE"}
                  THEN req'[r].resp = "ok" /\ opencodeClient'
                  ELSE req'[r].resp # "ok" /\ opencodeClient' = opencodeClient
          /\ opencodeClient' # opencodeClient
             => \E r \in Reqs : req[r].pc = "idle" /\ req'[r].op = "initialize"]_vars

\* initialize has failed on an error that is no bind conflict and the gateway
\* is not initialized
C27_InitializeFailed ==
    \E r \in Reqs :
       /\ ~opencodeClient
       /\ req[r].op = "initialize"
       /\ req[r].answers = <<"failed">>
       /\ req[r].resp = "connect failed"


\* a chunk the converter makes a part from
Convertible(chunk) ==
    \/ chunk.type \in {"text", "resource_link"}
    \/ chunk.type = "resource" /\ chunk.text # Undefined
    \/ chunk.type = "image" /\ chunk.data \notin {Undefined, EmptyString}

\* the place, among the parts, of the part made from chunk i of a prompt
PartOf(i, content) ==
    Cardinality({j \in 1..i : Convertible(content[j])})

\* part is the one part of a chunk: a text part with the identical text for a
\* text chunk, a text part that names the uri for a link, a text part that ends
\* with the resource's text for an embedded resource, a file part with the
\* payload for an image
MadeFrom(part, chunk) ==
    CASE chunk.type = "text" -> part.type = "text" /\ part.text = chunk.text
      [] chunk.type = "resource_link" ->
           part.type = "text" /\ part.text = LinkText(chunk.uri)
      [] chunk.type = "resource" ->
           /\ part.type = "text"
           /\ Len(part.text) > Len(chunk.text)
           /\ SubSeq(part.text, Len(part.text) - Len(chunk.text) + 1, Len(part.text))
              = chunk.text
      [] chunk.type = "image" -> part.type = "file" /\ part.url = chunk.data
      [] OTHER -> FALSE

\* the prompt handler has converted the content of its request
Converted(r) == req[r].op = "prompt" /\ Len(req[r].calls) > 0

\* C28: for every sequence of prompt chunks the converter returns exactly one
\* backend part for each text chunk, resource link, embedded resource with text
\* and image with payload data, in the order of the chunks, and no part for an
\* embedded resource without text, an image without data or a chunk of another
\* type; a text chunk is made into a text part with the identical text.
C28_OnePartPerConvertibleChunk ==
    \A r \in Reqs :
       Converted(r)
       => LET content == req[r].prompt
              parts == req[r].parts
          IN /\ Len(parts) = PartOf(Len(content), content)
             /\ \A i \in 1..Len(content) :
                   Convertible(content[i]) => MadeFrom(parts[PartOf(i, content)], content[i])

\* a prompt of an embedded resource without text and a text chunk was converted
\* into the one text part
C28_ResourceDroppedTextKept ==
    \E r \in Reqs :
       /\ Converted(r)
       /\ req[r].prompt = <<ResourceChunk(Uri, Undefined), TextChunk(Hello)>>
       /\ Len(req[r].parts) = 1
       /\ req[r].parts[1].text = Hello


\* the session update of each recognized event type: its kind and its status
Shapes ==
    {<<"tool_start", "tool_call", "pending">>,
     <<"tool_update", "tool_call_update", "in_progress">>,
     <<"tool_complete", "tool_call_update", "completed">>,
     <<"text_delta", "agent_message_chunk", "none">>,
     <<"reasoning_delta", "agent_thought_chunk", "none">>,
     <<"plan_update", "plan", "none">>}

Recognized(event) == \E sh \in Shapes : sh[1] = event.type

\* the sends issued for event n of the feed of request r, resolved or rejected
IssuedFor(r, n) ==
    LET log == req[r].sent \o req[r].lost IN
    {i \in 1..Len(log) : log[i].src = "stream" /\ log[i].n = n}

\* exactly one send was issued for event n of request r, of the event's shape
OneOfShape(r, n) ==
    LET log == req[r].sent \o req[r].lost IN
    /\ Cardinality(IssuedFor(r, n)) = 1
    /\ \A i \in IssuedFor(r, n) :
          /\ log[i].u.sessionId = req[r].sid
          /\ <<stream[r].arrived[n].type, log[i].u.sessionUpdate, log[i].u.status>>
             \in Shapes

\* the events of the feed of request r that the drain loop has handled
Drained(r) == 1..stream[r].consumed

\* C29 as stated: the translator emits exactly one session update, of the
\* event's shape, for each recognized stream event, and none for an event of
\* any other type.
C29_OneUpdatePerRecognizedEvent ==
    \A r \in Reqs : \A n \in Drained(r) :
       IF Recognized(stream[r].arrived[n]) THEN OneOfShape(r, n)
       ELSE IssuedFor(r, n) = {}

\* the translation of the event does not fail: the event carries the
\* properties its case reads (plan_update reads them guardedly)
Translates(event) == event.text # Undefined \/ event.type = "plan_update"

\* C29, amended: exactly one session update for each recognized stream event
\* whose translation does not fail, and none for a recognized event without
\* properties (tool and delta events) and for an event of any other type
C29_OneUpdatePerTranslatedEvent ==
    \A r \in Reqs : \A n \in Drained(r) :
       IF Recognized(stream[r].arrived[n]) /\ Translates(stream[r].arrived[n])
       THEN OneOfShape(r, n)
       ELSE IssuedFor(r, n) = {}

\* a tool_update and an event of no recognized type were handled: one
\* tool_call_update in progress was delivered
C29_ToolUpdateAndUnknown ==
    \E r \in Reqs :
       /\ stream[r].consumed = 2
       /\ stream[r].arrived[1].type = "session.idle"
       /\ stream[r].arrived[2].type = "tool_update"
       /\ Len(req[r].sent) = 1
       /\ req[r].sent[1].u.sessionUpdate = "tool_call_update"
       /\ req[r].sent[1].u.status = "in_progress"


\* event m of the feed of request r was handled and failed: its translation
\* threw, or the send of its update was rejected
FailedAt(r, m) ==
    /\ m \in 1..stream[r].consumed
    /\ \/ Recognized(stream[r].arrived[m]) /\ ~Translates(stream[r].arrived[m])
       \/ \E i \in 1..Len(req[r].lost) :
             req[r].lost[i].src = "stream" /\ req[r].lost[i].n = m

\* the delivered updates of the feed keep the order of the events
InFeedOrder(log) ==
    \A i, j \in 1..Len(log) :
       (i < j /\ log[i].src = "stream" /\ log[j].src = "stream") => log[i].n < log[j].n

\* C30: a failure while translating or forwarding one stream event never
\* aborts the drain. The failing event is skipped and the loop goes on: it
\* leaves the drain only when the feed has ended and every event was handled;
\* every later event that translates has its update sent, in the order of the
\* feed; and the prompt that handled a failing event returns end_turn.
C30_DrainSurvivesFailure ==
    /\ [](\A r \in Reqs :
            /\ InFeedOrder(req[r].sent)
            /\ \A m, n \in 1..stream[r].consumed :
                  (/\ FailedAt(r, m)
                   /\ m < n
                   /\ Recognized(stream[r].arrived[n])
                   /\ Translates(stream[r].arrived[n]))
                  => IssuedFor(r, n) # {}
            /\ (req[r].pc = "done" /\ \E m \in 1..stream[r].consumed : FailedAt(r, m))
               => req[r].resp = "end_turn")
    /\ [][\A r \in Reqs :
            req[r].pc = "drain"
            => \/ req'[r].pc = "drain"
               \/ /\ req'[r].pc = "final"
                  /\ stream[r].st \in {"closed", "error"}
                  /\ stream[r].consumed = Len(stream[r].arrived)]_vars

\* a prompt returned end_turn after an event whose translation failed and a
\* later event whose update was delivered
C30_DeliveredAfterFailure ==
    \E r \in Reqs :
       /\ req[r].pc = "done"
       /\ req[r].resp = "end_turn"
       /\ stream[r].consumed = 2
       /\ stream[r].arrived[1] = StreamEvent("text_delta", Undefined)
       /\ Len(req[r].sent) = 1
       /\ req[r].sent[1].n = 2


\* the prompt of request r has run its final-result pass to the end
FinalPassDone(r) ==
    /\ req[r].op = "prompt"
    /\ req[r].pc = "done"
    /\ req[r].resp = "end_turn"
    /\ req[r].path \in {"streaming", "nonstreaming"}

\* the updates of the final-result pass, in the order they were delivered
FinalUpdates(r) == SelectSeq(req[r].sent, LAMBDA e : e.src = "final")

\* C31: in the final-result pass of a prompt each part of the backend result
\* (text, file, tool, reasoning) produces exactly one session update, in the
\* order of the result: text as agent_message_chunk, reasoning as
\* agent_thought_chunk, a tool part as one update whatever its state.
C31_OneUpdatePerResultPart ==
    \A r \in Reqs :
       FinalPassDone(r)
       => /\ Len(FinalUpdates(r)) = Len(req[r].result)
          /\ \A k \in 1..Len(FinalUpdates(r)) :
                /\ FinalUpdates(r)[k].n = k
                /\ req[r].result[k].type = "text"
                   => FinalUpdates(r)[k].u.sessionUpdate = "agent_message_chunk"
                /\ req[r].result[k].type = "reasoning"
                   => FinalUpdates(r)[k].u.sessionUpdate = "agent_thought_chunk"


\* the drain loop of request r was ended by an error of the feed
StreamBroke(r) ==
    /\ req[r].op = "prompt"
    /\ req[r].path = "streaming"
    /\ Len(req[r].answers) = 2
    /\ req[r].answers[2] = "ok"
    /\ stream[r].st = "error"
    /\ req[r].pc \notin {"prompt", "drain"}

\* the final-result pass of request r ran over every part of the result
FinalPassRan(r) ==
    /\ req[r].idx = Len(req[r].result) + 1
    /\ \A k \in 1..Len(req[r].result) :
          req[r].result[k].type = "text"
          => \E i \in 1..Len(req[r].sent) :
                req[r].sent[i].src = "final" /\ req[r].sent[i].n = k

\* a request keeps every update it has delivered
KeepsDelivered ==
    [][\A r \in Reqs :
         req[r].pc \notin {"idle", "done"}
         => /\ Len(req'[r].sent) >= Len(req[r].sent)
            /\ SubSeq(req'[r].sent, 1, Len(req[r].sent)) = req[r].sent]_vars

\* C32 as stated: if reading the event stream fails in the middle of the drain,
\* the prompt does not fail: the updates already forwarded stay delivered, the
\* final-result pass runs over every part of the result, and the prompt returns
\* end_turn.
C32_StreamErrorEndTurn ==
    /\ KeepsDelivered
    /\ [](\A r \in Reqs :
            (StreamBroke(r) /\ req[r].pc = "done")
            => (req[r].resp = "end_turn" /\ FinalPassRan(r)))

\* C32, amended: after an error of the feed the handler goes on to the
\* final-result pass with the forwarded updates kept; the prompt returns
\* end_turn with the pass run over every part, unless the send of an update of
\* that pass is rejected, which fails the prompt
C32_StreamErrorThenFinalPass ==
    /\ KeepsDelivered
    /\ [](\A r \in Reqs :
            StreamBroke(r)
            => /\ req[r].pc \in {"final", "done"}
               /\ req[r].pc = "done"
                  => \/ req[r].resp = "end_turn" /\ FinalPassRan(r)
                     \/ /\ req[r].resp = "send rejected"
                        /\ req[r].idx \in 1..Len(req[r].result))

\* a prompt returned end_turn after its feed broke: an update of the feed and an
\* update of the final pass were delivered
C32_EndTurnAfterStreamError ==
    \E r \in Reqs :
       /\ StreamBroke(r)
       /\ req[r].resp = "end_turn"
       /\ stream[r].consumed > 0
       /\ \E i, j \in 1..Len(req[r].sent) :
             i < j /\ req[r].sent[i].src = "stream" /\ req[r].sent[j].src = "final"


\* the backend prompt calls request r has issued
PromptCalls(r) ==
    {i \in 1..Len(req[r].calls) : req[r].calls[i].name = "session.prompt"}

\* request r is a prompt that found its session in the registry
PromptOnRegistered(r) == req[r].op = "prompt" /\ req[r].found # <<>>

\* C33: a non-slash prompt on a registered session issues the backend prompt
\* call exactly once, on the streaming path and on the non-streaming fallback:
\* never more than one, and one from the return of event.subscribe on; a
\* slash-command prompt issues none.
C33_OnePromptCall ==
    \A r \in Reqs :
       PromptOnRegistered(r)
       => IF FirstTextBeginsWithSlash(req[r].prompt)
          THEN PromptCalls(r) = {}
          ELSE /\ Cardinality(PromptCalls(r)) <= 1
               /\ req[r].pc # "subscribe" => Cardinality(PromptCalls(r)) = 1

\* a prompt on the non-streaming fallback has ended with one backend prompt call
C33_FallbackCalledOnce ==
    \E r \in Reqs :
       /\ PromptOnRegistered(r)
       /\ req[r].path = "nonstreaming"
       /\ req[r].pc = "done"
       /\ Cardinality(PromptCalls(r)) = 1


\* request r is a prompt in flight on session s
InFlightOn(r, s) ==
    /\ req[r].op = "prompt"
    /\ req[r].sid = s
    /\ req[r].pc \notin {"idle", "done"}
    /\ req[r].found # <<>>

\* the backend session of the event that update i of request r was made from
OriginOf(r, i) == stream[r].arrived[req[r].sent[i].n].sessionID

\* C34: with prompts in flight on two different sessions A and B, every session
\* update emitted under session id A that was made from a stream event was made
\* from an event of session A: an event the backend produced for session B is
\* never forwarded as an update of session A.
C34_UpdatesOfOwnSession ==
    \A ra, rb \in Reqs :
       (/\ InFlightOn(ra, req[ra].sid)
        /\ InFlightOn(rb, req[rb].sid)
        /\ req[ra].sid # req[rb].sid)
       => \A i \in 1..Len(req[ra].sent) :
             (req[ra].sent[i].src = "stream" /\ req[ra].sent[i].u.sessionId = req[ra].sid)
             => OriginOf(ra, i) = req[ra].sid

\* the catalog entries (provider id, model key) that newSession advertises
AdvertisedEntries ==
    {<<SlashCatalog[p[1]].id, SlashCatalog[p[1]].models[p[2]]>> :
        p \in ModelPairs(SlashCatalog)}

\* request r is a prompt on a session whose current model is the advertised
\* id of entry e, and its backend prompt call is issued
PromptsWith(r, e) ==
    /\ PromptOnRegistered(r)
    /\ req[r].found[1].currentModel = ModelIdOf(e[1], e[2])
    /\ PromptCalls(r) # {}

\* C35: model identifiers round-trip: when the current model of a session is the
\* id `p/m` that newSession advertises for the catalog entry (provider p, model
\* m), the backend prompt call of a prompt on the session carries providerID = p
\* and modelID = m, also when m contains a slash.
C35_ModelIdRoundTrip ==
    \A r \in Reqs : \A e \in AdvertisedEntries :
       PromptsWith(r, e)
       => \A i \in PromptCalls(r) :
             /\ req[r].calls[i].providerID = e[1]
             /\ req[r].calls[i].modelID = e[2]

\* request r is operation op on a session it found in the registry
OnRegistered(r, op) == req[r].op = op /\ req[r].found # <<>>

\* request r has issued session.abort for its session
AbortIssued(r) ==
    \E i \in 1..Len(req[r].calls) :
       req[r].calls[i].name = "session.abort" /\ req[r].calls[i].sid = req[r].sid

\* C36: whenever the registry holds a session the backend client is initialized;
\* hence a cancel on a registered session always issues session.abort, and a
\* prompt on a registered session never fails with "opencode client not
\* initialized".
C36_RegistryNeedsClient ==
    /\ DOMAIN sessions # {} => opencodeClient
    /\ \A r \in Reqs :
          /\ OnRegistered(r, "cancel") => AbortIssued(r)
          /\ OnRegistered(r, "prompt")
             => req[r].resp # "opencode client not initialized"

\* a cancel on a registered session has issued session.abort and returned
C36_CancelIssuedAbort ==
    \E r \in Reqs :
       /\ OnRegistered(r, "cancel")
       /\ req[r].pc = "done"
       /\ AbortIssued(r)
       /\ opencodeClient

\* request r is a newSession or loadSession that has returned a response with a
\* models object
ReportsModels(r) ==
    /\ req[r].op \in {"newSession", "loadSession"}
    /\ req[r].pc = "done"
    /\ req[r].resp = "ok"
    /\ req[r].out # NoModels

\* C37: in every newSession and loadSession response that reports models,
\* availableModels is not empty and currentModelId is the modelId of one of its
\* entries.
C37_CurrentModelIsListed ==
    \A r \in Reqs :
       ReportsModels(r)
       => /\ Len(req[r].out.availableModels) > 0
          /\ \E i \in 1..Len(req[r].out.availableModels) :
                req[r].out.availableModels[i] = req[r].out.currentModelId

\* a loadSession whose catalog has no model reports the synthetic default model
C37_LoadReportsDefault ==
    \E r \in Reqs :
       /\ req[r].op = "loadSession"
       /\ ReportsModels(r)
       /\ req[r].out.availableModels = <<DefaultModel>>

\* the operations of C38
FlagOps == {"prompt", "setSessionModel", "setSessionMode"}

\* the registry entry that request r found, without its cancelled flag
Unflagged(r) ==
    [id |-> req[r].found[1].id,
     currentModel |-> req[r].found[1].currentModel,
     currentMode |-> req[r].found[1].currentMode]

\* the updates request r has delivered, in order, with their origin
Updates(r) ==
    [i \in 1..Len(req[r].sent) |->
        [u |-> req[r].sent[i].u, src |-> req[r].sent[i].src, n |-> req[r].sent[i].n]]

IsPrefix(s, t) == Len(s) <= Len(t) /\ \A i \in 1..Len(s) : s[i] = t[i]

\* ra and rb are the same request, returned, on a session that is the same but
\* for its cancelled flag: clear when ra looked it up, set when rb did
FlagTwins(ra, rb) ==
    /\ req[ra].op \in FlagOps
    /\ req[ra].op = req[rb].op
    /\ req[ra].pc = "done" /\ req[rb].pc = "done"
    /\ req[ra].sid = req[rb].sid
    /\ req[ra].prompt = req[rb].prompt
    /\ req[ra].arg = req[rb].arg
    /\ req[ra].found # <<>> /\ req[rb].found # <<>>
    /\ Unflagged(ra) = Unflagged(rb)
    /\ ~req[ra].found[1].cancelled
    /\ req[rb].found[1].cancelled

\* the backend gave ra and rb the same answers, result and events
SameBackend(ra, rb) ==
    /\ req[ra].answers = req[rb].answers
    /\ req[ra].result = req[rb].result
    /\ stream[ra] = stream[rb]

\* C38: the cancelled flag influences no prompt, setSessionModel or
\* setSessionMode: two returned requests that are the same but for the flag of
\* their session, and that the backend answers alike as far as both ask it,
\* ask it equally far, and with the same answers issue the same backend
\* calls, deliver the same updates and return the same result.
C38_FlagChangesNothing ==
    \A ra, rb \in Reqs :
       (FlagTwins(ra, rb)
          /\ (IsPrefix(req[ra].answers, req[rb].answers)
                \/ IsPrefix(req[rb].answers, req[ra].answers)))
       => /\ Len(req[ra].answers) = Len(req[rb].answers)
          /\ SameBackend(ra, rb)
             => /\ req[ra].calls = req[rb].calls
                /\ Updates(ra) = Updates(rb)
                /\ req[ra].resp = req[rb].resp
                /\ req[ra].path = req[rb].path

\* two prompts on one session, the flag set between them, have returned end_turn
\* on the same backend answers, each with an update delivered
C38_PromptTwins ==
    \E ra, rb \in Reqs :
       /\ FlagTwins(ra, rb)
       /\ SameBackend(ra, rb)
       /\ req[ra].op = "prompt"
       /\ req[rb].resp = "end_turn"
       /\ Len(req[rb].sent) > 0

\* the fields of a registry entry
SessionFields == {"id", "cancelled", "currentModel", "currentMode"}

\* the field that each of the three operations assigns
TargetField(op) ==
    CASE op = "cancel" -> "cancelled"
      [] op = "setSessionModel" -> "currentModel"
      [] op = "setSessionMode" -> "currentMode"

\* this step is request r entering cancel, setSessionModel or setSessionMode on a
\* registered session
Enters(r) ==
    /\ req[r].pc = "idle"
    /\ req'[r].op \in {"cancel", "setSessionModel", "setSessionMode"}
    /\ req'[r].found # <<>>

\* C39: cancel, setSessionModel and setSessionMode on session A change at most
\* the field they are about (cancelled, currentModel, currentMode) of A: the
\* other fields of A and every field of every other registered session stay as
\* they are, and so does the set of registered sessions, also while requests
\* on other sessions are in flight; the rest of cancel, after session.abort,
\* changes nothing of the registry.
C39_OnlyTargetFieldChanges ==
    [][\A r \in Reqs :
          /\ Enters(r)
             => /\ DOMAIN sessions' = DOMAIN sessions
                /\ \A s \in DOMAIN sessions : \A f \in SessionFields :
                      (s # req'[r].sid \/ f # TargetField(req'[r].op))
                      => sessions'[s][f] = sessions[s][f]
          /\ (req[r].pc = "abort" /\ req'[r].pc # "abort")
             => sessions' = sessions]_vars

\* setSessionModel has set the model of one session while a cancel on the other
\* session awaits session.abort, and the two sessions differ in their model
C39_SetModelDuringCancel ==
    \E ra, rb \in Reqs :
       /\ req[ra].op = "setSessionModel" /\ req[ra].pc = "done"
       /\ req[ra].sid \in DOMAIN sessions
       /\ req[rb].op = "cancel" /\ req[rb].pc = "abort"
       /\ req[rb].sid \in DOMAIN sessions
       /\ req[ra].sid # req[rb].sid
       /\ sessions[req[ra].sid].currentModel = req[ra].arg
       /\ sessions[req[rb].sid].currentModel # req[ra].arg

====
